---- MODULE Spec2Model ----
(***************************************************************************)
(* Model of the siad gateway's peer table: Connect, Disconnect, the manual *)
(* wrappers and the inbound admission path (modules/gateway/peers.go).     *)
(* Every section of code that runs under g.mu is one atomic action.  Code  *)
(* that touches only the task's own locals and connection (the checks on   *)
(* the argument, the dial, the handshake) is folded into the action of the *)
(* shared access before it, so that tasks interleave exactly at the        *)
(* accesses of the gateway's shared state.                                 *)
(***************************************************************************)
EXTENDS FiniteSets, Integers, Sequences, TLC

\* ---------------------------------------------------------------- bounds
\* Number of peer objects (sessions) created in one behaviour.
MaxPeers == 2

\* Capacity of the peer table that triggers kick-on-admit (scaled down).
fullyConnectedThreshold == 2

\* The largest maxEntries of a registryCache.
MaxEntries == 2

\* The tasks that call into the gateway concurrently.
Tasks == {"t1", "t2"}

\* ------------------------------------------------------------- addresses
\* A NetAddress is host:port.  Hosts: two public IPs, the loopback IP, a DNS
\* name and the empty host; ports: 0 is out of range, 1 and 2 are valid.
PublicHosts == {"1.1.1.1", "2.2.2.2"}

LocalHosts == {"127.0.0.1"}

IPHosts == PublicHosts \cup LocalHosts

ValidPorts == {1, 2}

JoinHostPort(h, q) == [host |-> h, port |-> q]

\* The addresses the API calls are given: a public one, the gateway's own,
\* one with a DNS name and one with a port out of range.
NetAddresses ==
    {JoinHostPort("1.1.1.1", 1), JoinHostPort("127.0.0.1", 1),
     JoinHostPort("example.com", 1), JoinHostPort("1.1.1.1", 0)}

\* The inbound connections: the socket address a connection comes from and
\* the address its session header advertises.  They give the peers
\* 1.1.1.1:1, 2.2.2.2:1 and 127.0.0.1:2.
InboundAddresses ==
    {<<JoinHostPort("1.1.1.1", 2), JoinHostPort("1.1.1.1", 1)>>,
     <<JoinHostPort("2.2.2.2", 2), JoinHostPort("9.9.9.9", 1)>>,
     <<JoinHostPort("127.0.0.1", 2), JoinHostPort("2.2.2.2", 2)>>}

Host(addr) == addr.host

Port(addr) == addr.port

IsLocal(addr) == Host(addr) \in LocalHosts

IsStdValid(addr) == Host(addr) # "" /\ Port(addr) \in ValidPorts

\* net.ParseIP(host) # nil
ParseIP(h) == h \in IPHosts

\* ---------------------------------------------------------------- errors
\* An error is the sequence of its messages; nil is the empty sequence and
\* build.ComposeErrors joins the non-nil ones.
nil == << >>

ComposeErrors(e1, e2) == e1 \o e2

errPeerExists == <<"already connected to this peer">>

errOwnAddress == <<"can't connect to our own address">>

errInvalidAddress == <<"can't connect to invalid address">>

errNotIP == <<"address must be an IP address">>

\* Mutant: the blocklist refusal carries the text of another refusal.
errBlocklistedOther == <<"can't connect to invalid address">>

errBlocklisted == <<"can't connect to blocklisted address">>

\* Mutant: Disconnect reports the error of another operation.
errNotConnectedOther == <<"already connected to this peer">>

errNotConnected == <<"not connected to that node">>

errDial == <<"dial failed">>

errSave == <<"save failed">>

errPeerRejectedConn == <<"peer rejected connection">>

invalidVersionError(s) == <<"invalid version: ", s>>

insufficientVersionError(s) == <<"unacceptable version: ", s>>

errPeerGenesisID == <<"peer has different genesis ID">>

errOurAddress == <<"can't add our own address">>

\* threadgroup.ErrStopped, the error of threads.Add() after Stop().
errStopped == <<"ThreadGroup already stopped">>

\* err.Error(): the text of an error.
Error(err) == err[1]

\* -------------------------------------------------------------- versions
\* The version strings a remote may send: three version literals, a string
\* that is no version, and the rejection sentinel.
VersionStrings == {"1.5.0", "1.3.1", "1.3.0", "abc", "reject"}

ProtocolVersion == "1.5.0"

minimumAcceptablePeerVersion == "1.3.1"

\* The numbers of a dotted version literal; << >> when the string is none.
VersionNumbers(version) ==
    CASE version = "1.5.0" -> <<1, 5, 0>>
      [] version = "1.3.1" -> <<1, 3, 1>>
      [] version = "1.3.0" -> <<1, 3, 0>>
      [] OTHER -> << >>

\* build.IsVersion
IsVersion(version) == Len(VersionNumbers(version)) > 0

\* build.VersionCmp: -1, 0 or 1, comparing number by number.
VersionCmp(a, b) ==
    LET x == VersionNumbers(a)
        y == VersionNumbers(b)
        n == IF Len(x) < Len(y) THEN Len(x) ELSE Len(y)
        d == {i \in 1..n : x[i] # y[i]}
    IN  IF d # {}
        THEN LET i == CHOOSE k \in d : \A m \in d : k <= m
             IN  IF x[i] < y[i] THEN -1 ELSE 1
        ELSE IF Len(x) < Len(y) THEN -1
        ELSE IF Len(x) > Len(y) THEN 1
        ELSE 0

\* acceptableVersion returns an error if the version is unacceptable.
acceptableVersion(version) ==
    IF ~IsVersion(version) THEN invalidVersionError(version)
    ELSE IF VersionCmp(version, minimumAcceptablePeerVersion) < 0
    THEN insufficientVersionError(version)
    ELSE nil

\* ------------------------------------------------------------- handshake
\* What encoding.ReadObject yields is a sequence: the object that was read,
\* or no object when the read failed.
ReadFailed == << >>

AcceptResponse == "accept"

StopResponse == "stop"

\* Mutant: the version is validated before the sentinel is looked for.
connectVersionHandshakeValidateFirst(read) ==
    IF Len(read) = 0
    THEN [remoteVersion |-> "", err |-> <<"failed to read remote version">>]
    ELSE IF acceptableVersion(read[1]) # nil
    THEN [remoteVersion |-> "", err |-> acceptableVersion(read[1])]
    ELSE IF read[1] = "reject"
    THEN [remoteVersion |-> "", err |-> errPeerRejectedConn]
    ELSE [remoteVersion |-> read[1], err |-> nil]

\* connectVersionHandshake after its write: what it returns for the remote
\* version it reads.
connectVersionHandshake(read) ==
    IF Len(read) = 0
    THEN [remoteVersion |-> "", err |-> <<"failed to read remote version">>]
    ELSE IF read[1] = "reject"
    THEN [remoteVersion |-> "", err |-> errPeerRejectedConn]
    ELSE IF acceptableVersion(read[1]) # nil
    THEN [remoteVersion |-> "", err |-> acceptableVersion(read[1])]
    ELSE [remoteVersion |-> read[1], err |-> nil]

\* Mutant: the own version is sent before the remote one is validated.
acceptVersionHandshakeWriteFirst(read, version) ==
    IF Len(read) = 0
    THEN [wrote |-> << >>, remoteVersion |-> "",
          err |-> <<"failed to read remote version">>]
    ELSE IF acceptableVersion(read[1]) # nil
    THEN [wrote |-> <<version, "reject">>, remoteVersion |-> "",
          err |-> acceptableVersion(read[1])]
    ELSE [wrote |-> <<version>>, remoteVersion |-> read[1], err |-> nil]

\* acceptVersionHandshake: what it writes and returns for the remote
\* version it reads.
acceptVersionHandshake(read, version) ==
    IF Len(read) = 0
    THEN [wrote |-> << >>, remoteVersion |-> "",
          err |-> <<"failed to read remote version">>]
    ELSE IF acceptableVersion(read[1]) # nil
    THEN [wrote |-> <<"reject">>, remoteVersion |-> "",
          err |-> acceptableVersion(read[1])]
    ELSE [wrote |-> <<version>>, remoteVersion |-> read[1], err |-> nil]

\* The genesis IDs of two chains and the IDs of two gateways.
GenesisID == "genesis"

OtherGenesisID == "other genesis"

sessionHeader(genesis, id, addr) ==
    [GenesisID |-> genesis, UniqueID |-> id, NetAddress |-> addr]

\* Mutant: the chain of the remote is not looked at.
acceptableSessionHeaderAnyChain(ourHeader, remoteHeader) ==
    IF remoteHeader.UniqueID = ourHeader.UniqueID THEN errOurAddress
    ELSE IF ~IsStdValid(remoteHeader.NetAddress)
    THEN <<"invalid remote address">>
    ELSE nil

\* Mutant: the unique IDs are compared before the genesis IDs.
acceptableSessionHeaderSelfFirst(ourHeader, remoteHeader) ==
    IF remoteHeader.UniqueID = ourHeader.UniqueID THEN errOurAddress
    ELSE IF remoteHeader.GenesisID # ourHeader.GenesisID THEN errPeerGenesisID
    ELSE IF ~IsStdValid(remoteHeader.NetAddress)
    THEN <<"invalid remote address">>
    ELSE nil

\* acceptableSessionHeader returns an error if remoteHeader indicates a
\* peer that should not be connected to.
acceptableSessionHeader(ourHeader, remoteHeader) ==
    IF remoteHeader.GenesisID # ourHeader.GenesisID THEN errPeerGenesisID
    ELSE IF remoteHeader.UniqueID = ourHeader.UniqueID THEN errOurAddress
    ELSE IF ~IsStdValid(remoteHeader.NetAddress)
    THEN <<"invalid remote address">>
    ELSE nil

\* exchangeOurHeader after its write: the error for the response it reads.
exchangeOurHeader(read) ==
    IF Len(read) = 0 THEN <<"failed to read header acceptance">>
    ELSE IF read[1] = StopResponse THEN <<"peer did not want a connection">>
    ELSE IF read[1] # AcceptResponse
    THEN <<"peer rejected our header: ", read[1]>>
    ELSE nil

\* exchangeRemoteHeader: the response it writes and what it returns for the
\* header it reads.
exchangeRemoteHeader(read, ourHeader) ==
    IF Len(read) = 0
    THEN [wrote |-> << >>, err |-> <<"failed to read remote header">>]
    ELSE IF acceptableSessionHeader(ourHeader, read[1]) # nil
    THEN [wrote |-> <<Error(acceptableSessionHeader(ourHeader, read[1]))>>,
          err |-> <<"peer's header was not acceptable: ",
                    Error(acceptableSessionHeader(ourHeader, read[1]))>>]
    ELSE [wrote |-> <<AcceptResponse>>, err |-> nil]

\* ----------------------------------------------------------------- state
VARIABLES
    peers,      \* g.peers: map NetAddress -> *peer
    nodes,      \* g.nodes: map NetAddress -> *node
    blocklist,  \* g.blocklist: set of hosts
    myAddr,     \* g.myAddr
    sess,       \* the session of every peer object created, by peer id
    log,        \* what the last acceptPeer call did (its log line)
    pc,         \* position of each task
    op,         \* the API call the task runs (or ran last)
    arg,        \* the address the call was given
    p,          \* the task's local *peer (id), 0 when unset
    conn,       \* the task's net.Conn: "none", "open", "closed"
    saveErr,    \* ConnectManual's err from saveSync
    ret,        \* the error the last call returned
    phase,      \* how far the handshake on the task's connection went:
                \* "none", "version", "header", "done"
    threads,    \* g.threads: "running", "stopping" (Stop called), "stopped"
    blocked,    \* history: the addresses DisconnectManual succeeded on and
                \* ConnectManual has not been called with since
    link,       \* a connection between two gateways, message by message
    mu,         \* g.mu and the position of each task in the code that uses it
    lis,        \* the listener loop (permanentListen) and its clock
    rpc,        \* the tasks callInitRPCs spawned and what they did
    cm,         \* contract manager: lockedSectors and the threads using it
    cache,      \* renter: the registryCache
    reg,        \* host: the Registry
    up          \* renter: a call of UploadLinkfile and its clock

vars == <<peers, nodes, blocklist, myAddr, sess, log, pc, op, arg, p, conn,
          saveErr, ret, phase, threads, blocked, link, mu, lis, rpc, cm, cache, reg, up>>

gateway == <<peers, nodes, blocklist, myAddr, sess>>

\* ------------------------------------------------------------------ maps
MapPut(m, k, v) == [x \in DOMAIN m \cup {k} |-> IF x = k THEN v ELSE m[x]]

MapDelete(m, k) == [x \in DOMAIN m \ {k} |-> m[x]]

EmptyMap == [x \in {} |-> 0]

\* A peer object: modules.Peer plus the identity of its session.
NewPeer(id, inbound, addr) ==
    [id |-> id, Inbound |-> inbound, Local |-> IsLocal(addr), NetAddress |-> addr]

NextId == Cardinality(DOMAIN sess) + 1

NoLog == [called |-> FALSE]

\* No connection between two gateways is being followed.
NoLink == [a |-> "none", b |-> "none"]

\* g.mu held by nobody and no task in the code that uses it.
MuFree ==
    [readers |-> {}, writer |-> "none",
     prog |-> [t \in Tasks |-> "none"], at |-> [t \in Tasks |-> 0]]

\* The init RPCs registered with the gateway.
InitRPCNames == {"rpc1", "rpc2"}

\* The tasks of callInitRPCs are not being followed.
NoRPC == [on |-> FALSE]

\* The contract manager is not being followed.
NoSectors == [on |-> FALSE]

\* The registry cache of the renter is not being followed.
NoCache == [on |-> FALSE]

\* The registry of the host is not being followed.
NoRegistry == [on |-> FALSE]

\* No call of UploadLinkfile is being followed.
NoUpload == [on |-> FALSE]

\* The listener loop is not being followed.
NoListener == [pc |-> "none"]

\* g.staticID
staticID == "gateway"

\* The session header the gateway sends.
OurHeader == sessionHeader(GenesisID, staticID, myAddr)

Init ==
    /\ peers = EmptyMap
    /\ nodes = EmptyMap
    /\ blocklist = {}
    /\ myAddr = JoinHostPort("127.0.0.1", 1)
    /\ sess = EmptyMap
    /\ log = NoLog
    /\ pc = [t \in Tasks |-> "idle"]
    /\ op = [t \in Tasks |-> "none"]
    /\ arg = [t \in Tasks |-> myAddr]
    /\ p = [t \in Tasks |-> 0]
    /\ conn = [t \in Tasks |-> "none"]
    /\ saveErr = [t \in Tasks |-> nil]
    /\ ret = [t \in Tasks |-> nil]
    /\ phase = [t \in Tasks |-> "none"]
    /\ threads = "running"
    /\ blocked = {}
    /\ link = NoLink
    /\ mu = MuFree
    /\ lis = NoListener
    /\ rpc = NoRPC
    /\ cm = NoSectors
    /\ cache = NoCache
    /\ reg = NoRegistry
    /\ up = NoUpload

\* ------------------------------------------------------- node table (4.6)
\* addNode inserts the address unless it is already known.
addNode(tbl, addr) ==
    IF addr \in DOMAIN tbl THEN tbl
    ELSE MapPut(tbl, addr, [WasOutboundPeer |-> FALSE])

\* ---------------------------------------------------------------- addPeer
addPeer(tbl, np) == MapPut(tbl, np.NetAddress, np)

\* ------------------------------------------------------------- acceptPeer
\* Mutant: the test for local peers is missing.
KickCandidatesIgnoringLocal(tbl) == {a \in DOMAIN tbl : tbl[a].Inbound}

\* The peers that may be kicked: inbound and not local.
KickCandidates(tbl) == {a \in DOMAIN tbl : ~(~tbl[a].Inbound \/ tbl[a].Local)}

\* Mutant: the peers of the new peer's host are not preferred.
KickPoolNoPreference(tbl, np) == KickCandidates(tbl)

\* The addresses acceptPeer chooses its victim from.
KickPool(tbl, np) ==
    LET preferredAddrs ==
            {a \in KickCandidates(tbl) : Host(a) = Host(np.NetAddress)}
        addrs == KickCandidates(tbl) \ preferredAddrs
    IN  IF preferredAddrs # {} THEN preferredAddrs ELSE addrs

\* Mutant: the comparison with the threshold is off by one.
MustKickAboveThreshold(tbl) ==
    ~(Cardinality(DOMAIN tbl) <= fullyConnectedThreshold)

\* Whether acceptPeer has to make room.
MustKick(tbl) == ~(Cardinality(DOMAIN tbl) < fullyConnectedThreshold)

\* The set of victims acceptPeer may pick: {} when nobody is kicked.
KickChoices(tbl, np) ==
    IF MustKick(tbl) /\ KickPool(tbl, np) # {}
    THEN {{a} : a \in KickPool(tbl, np)}
    ELSE {{}}

\* Mutant: the victim's entry stays in the table.
acceptPeerKeepsVictim(tbl, np, kick) == addPeer(tbl, np)

\* The peer table after acceptPeer kicked the peers in kick and added np.
acceptPeer(tbl, np, kick) ==
    addPeer([a \in DOMAIN tbl \ kick |-> tbl[a]], np)

\* A session is open from its creation until Close.
NewSession(addr) == [open |-> TRUE]

\* sess.Close()
Close(s, id) == [s EXCEPT ![id].open = FALSE]

\* The sessions after acceptPeer closed the victims' and np's was created.
acceptPeerSess(s, tbl, np, kick) ==
    [i \in DOMAIN s \cup {np.id} |->
        IF i = np.id THEN NewSession(np.NetAddress)
        ELSE IF \E a \in kick : tbl[a].id = i THEN Close(s, i)[i]
        ELSE s[i]]

\* ------------------------------------------------------- lifecycle barrier
\* g.threads.Add(): nil until Stop() has been called.
Add == IF threads = "running" THEN nil ELSE errStopped

\* The tasks between their threads.Add() and their threads.Done().
Registered(t) == pc[t] \in {"exists", "add", "close", "delete", "acc_admit"}

\* ------------------------------------------------------------ task frames
\* The locals of a call that has returned are dead.  They stay readable, as
\* the result of the call, until another task takes a step: Rest is the
\* value of the local f of every task after a step of task t, fresh for
\* the idle tasks other than t.
Rest(f, fresh, t) ==
    [u \in Tasks |-> IF u # t /\ pc[u] = "idle" THEN fresh ELSE f[u]]

\* Task t leaves its locals of the given names as they are.
Kept(t, names) ==
    LET s == {names[i] : i \in DOMAIN names} IN
    /\ IF "op" \in s THEN op' = Rest(op, "none", t) ELSE TRUE
    /\ IF "arg" \in s THEN arg' = Rest(arg, myAddr, t) ELSE TRUE
    /\ IF "p" \in s THEN p' = Rest(p, 0, t) ELSE TRUE
    /\ IF "conn" \in s THEN conn' = Rest(conn, "none", t) ELSE TRUE
    /\ IF "saveErr" \in s THEN saveErr' = Rest(saveErr, nil, t) ELSE TRUE
    /\ IF "ret" \in s THEN ret' = Rest(ret, nil, t) ELSE TRUE
    /\ IF "phase" \in s THEN phase' = Rest(phase, "none", t) ELSE TRUE

Creating == {"exists", "add", "cm_connect", "acc_admit"}

InFlight == Cardinality({t \in Tasks : pc[t] \in Creating})

CanCreate == NextId + InFlight <= MaxPeers

\* Starting a call: the locals are fresh.
Call(t, o, a) ==
    /\ pc[t] = "idle"
    /\ op' = [Rest(op, "none", t) EXCEPT ![t] = o]
    /\ arg' = [Rest(arg, myAddr, t) EXCEPT ![t] = a]

\* Returning err from Connect or Disconnect, through the manual wrapper when
\* the call came from one.
Return(t, o, err) ==
    CASE o = "ConnectManual" ->
            /\ ret' = [Rest(ret, nil, t) EXCEPT
                           ![t] = ComposeErrors(saveErr[t], err)]
            /\ pc' = [pc EXCEPT ![t] = "idle"]
      [] o = "DisconnectManual" /\ err = nil ->
            /\ ret' = [Rest(ret, nil, t) EXCEPT ![t] = nil]
            /\ pc' = [pc EXCEPT ![t] = "dm_block"]
      [] OTHER ->
            /\ ret' = [Rest(ret, nil, t) EXCEPT ![t] = err]
            /\ pc' = [pc EXCEPT ![t] = "idle"]

\* ------------------------------------------------------------ the remotes
\* What the remote of a connection sends: its version, its session header
\* and its response to our header; a read that fails yields no object.
Remote(reachable, sock, version, header, response) ==
    [reachable |-> reachable, sock |-> sock, version |-> version,
     header |-> header, response |-> response]

\* The remotes a dial to addr may find: a compatible gateway, nobody, a
\* gateway that rejects our version, one that runs an old version, one that
\* goes silent, and one on another chain, which refuses our header.
Dialed(addr) ==
    LET hdr == <<sessionHeader(GenesisID, "remote", addr)>> IN
    {Remote(TRUE, addr, <<ProtocolVersion>>, hdr, <<AcceptResponse>>),
     Remote(FALSE, addr, ReadFailed, ReadFailed, ReadFailed),
     Remote(TRUE, addr, <<"reject">>, ReadFailed, ReadFailed),
     Remote(TRUE, addr, <<"1.3.0">>, ReadFailed, ReadFailed),
     Remote(TRUE, addr, ReadFailed, ReadFailed, ReadFailed),
     Remote(TRUE, addr, <<ProtocolVersion>>, ReadFailed,
            <<Error(errPeerGenesisID)>>)}

\* The remotes that connect to the gateway: the compatible ones of
\* InboundAddresses, one that runs an old version, one that advertises an
\* invalid address and one that refuses our header.
Inbound ==
    {Remote(TRUE, in[1], <<ProtocolVersion>>,
            <<sessionHeader(GenesisID, "remote", in[2])>>, <<AcceptResponse>>) :
        in \in InboundAddresses}
    \cup
    {Remote(TRUE, JoinHostPort("2.2.2.2", 2), <<"1.3.0">>, ReadFailed,
            ReadFailed),
     Remote(TRUE, JoinHostPort("2.2.2.2", 2), <<ProtocolVersion>>,
            <<sessionHeader(GenesisID, "remote", JoinHostPort("9.9.9.9", 0))>>,
            ReadFailed),
     Remote(TRUE, JoinHostPort("2.2.2.2", 2), <<ProtocolVersion>>,
            <<sessionHeader(GenesisID, "remote", JoinHostPort("9.9.9.9", 1))>>,
            <<StopResponse>>)}

\* ---------------------------------------------------------------- Connect
\* Mutant: the blocklist is not consulted.
VerifyErrNoBlocklist(addr, gaddr, blocked_) ==
    IF addr = gaddr THEN errOwnAddress
    ELSE IF ~IsStdValid(addr) THEN errInvalidAddress
    ELSE IF ~ParseIP(Host(addr)) THEN errNotIP
    ELSE nil

\* managedConnect: the checks on the input address, in the code's order.
VerifyErr(addr, gaddr, blocked_) ==
    IF addr = gaddr THEN errOwnAddress
    ELSE IF ~IsStdValid(addr) THEN errInvalidAddress
    ELSE IF ~ParseIP(Host(addr)) THEN errNotIP
    ELSE IF Host(addr) \in blocked_ THEN errBlocklisted
    ELSE nil

\* managedConnect up to the blocklist lookup.
ManagedConnectVerify(t, o, addr) ==
    IF VerifyErr(addr, myAddr, blocklist) # nil
    THEN Return(t, o, VerifyErr(addr, myAddr, blocklist))
    ELSE /\ pc' = [pc EXCEPT ![t] = "exists"]
         /\ ret' = [Rest(ret, nil, t) EXCEPT ![t] = nil]

\* Connect: threads.Add(), then managedConnect.
ConnectEnter(t, o, addr) ==
    IF Add # nil THEN Return(t, o, Add)
    ELSE ManagedConnectVerify(t, o, addr)

Connect(t, addr) ==
    /\ CanCreate
    /\ Call(t, "Connect", addr)
    /\ conn' = [Rest(conn, "none", t) EXCEPT ![t] = "none"]
    /\ phase' = [Rest(phase, "none", t) EXCEPT ![t] = "none"]
    /\ ConnectEnter(t, "Connect", addr)
    /\ UNCHANGED <<gateway, log, threads, blocked, link, mu, lis, rpc, cm, cache, reg, up>>
    /\ saveErr' = [Rest(saveErr, nil, t) EXCEPT ![t] = nil]
    /\ Kept(t, <<"p">>)

\* managedConnectPeer: our header first, then the remote's.
managedConnectPeer(remote, ourHeader) ==
    IF exchangeOurHeader(remote.response) # nil
    THEN exchangeOurHeader(remote.response)
    ELSE exchangeRemoteHeader(remote.header, ourHeader).err

\* Mutant: a connection whose header exchange failed is not closed.
managedConnectConnLeak(remote, ourHeader) ==
    LET v == connectVersionHandshake(remote.version) IN
    IF ~remote.reachable
    THEN [err |-> errDial, phase |-> "none", conn |-> "none"]
    ELSE IF v.err # nil
    THEN [err |-> v.err, phase |-> "version", conn |-> "closed"]
    ELSE IF acceptableVersion(v.remoteVersion) # nil
    THEN [err |-> acceptableVersion(v.remoteVersion), phase |-> "version",
          conn |-> "closed"]
    ELSE IF managedConnectPeer(remote, ourHeader) # nil
    THEN [err |-> managedConnectPeer(remote, ourHeader), phase |-> "header",
          conn |-> "open"]
    ELSE [err |-> nil, phase |-> "done", conn |-> "open"]

\* managedConnect from staticDial to the end of the handshake: the error,
\* the phase the handshake reached and the state of the connection.
managedConnectConn(remote, ourHeader) ==
    LET v == connectVersionHandshake(remote.version) IN
    IF ~remote.reachable
    THEN [err |-> errDial, phase |-> "none", conn |-> "none"]
    ELSE IF v.err # nil
    THEN [err |-> v.err, phase |-> "version", conn |-> "closed"]
    ELSE IF acceptableVersion(v.remoteVersion) # nil
    THEN [err |-> acceptableVersion(v.remoteVersion), phase |-> "version",
          conn |-> "closed"]
    ELSE IF managedConnectPeer(remote, ourHeader) # nil
    THEN [err |-> managedConnectPeer(remote, ourHeader), phase |-> "header",
          conn |-> "closed"]
    ELSE [err |-> nil, phase |-> "done", conn |-> "open"]

\* managedConnect: the existence check under the shared lock, then
\* staticDial and the two handshakes on the task's own connection.
ConnectExists(t) ==
    /\ pc[t] = "exists"
    /\ IF arg[t] \in DOMAIN peers
       THEN /\ conn' = Rest(conn, "none", t)
            /\ phase' = Rest(phase, "none", t)
            /\ Return(t, op[t], errPeerExists)
       ELSE \E remote \in Dialed(arg[t]) :
            LET c == managedConnectConn(remote, OurHeader) IN
            /\ conn' = [Rest(conn, "none", t) EXCEPT ![t] = c.conn]
            /\ phase' = [Rest(phase, "none", t) EXCEPT ![t] = c.phase]
            /\ IF c.err # nil
               THEN Return(t, op[t], c.err)
               ELSE /\ pc' = [pc EXCEPT ![t] = "add"]
                    /\ ret' = Rest(ret, nil, t)
    /\ saveErr' = [Rest(saveErr, nil, t) EXCEPT
                        ![t] = IF pc'[t] = "idle" THEN nil ELSE @]
    /\ UNCHANGED <<gateway, log, threads, blocked, link, mu, lis, rpc, cm, cache, reg, up>>
    /\ Kept(t, <<"op", "arg", "p">>)

\* The peer managedConnect builds.
ConnectPeer(id, addr) == NewPeer(id, FALSE, addr)

\* Mutant: the node is added but not marked as an outbound peer.
ConnectNodesNoFlag(tbl, addr) == addNode(tbl, addr)

\* The node table after managedConnect recorded the outbound peer.
ConnectNodes(tbl, addr) ==
    [addNode(tbl, addr) EXCEPT ![addr].WasOutboundPeer = TRUE]

\* Mutant: the error of saveSyncNodes is returned.
managedConnectSavedFatal(err) == err

\* What managedConnect returns after saveSyncNodes returned err: the error
\* is logged and the call succeeds.
managedConnectSaved(err) == nil

\* callInitRPCs(addr): one task is spawned for every registered init RPC.
callInitRPCs(r, addr) ==
    IF ~r.on THEN r
    ELSE [r EXCEPT !.connects[addr] = @ + 1,
                   !.spawned = [k \in DOMAIN @ |->
                                   IF k[1] = addr THEN @[k] + 1 ELSE @[k]]]

\* managedConnect: the section under the exclusive lock; saveSyncNodes may
\* fail, and its error is what the call saw last; the init RPCs are
\* started last.
ConnectAdd(t) ==
    /\ pc[t] = "add"
    /\ peers' = addPeer(peers, ConnectPeer(NextId, arg[t]))
    /\ sess' = MapPut(sess, NextId, NewSession(arg[t]))
    /\ nodes' = ConnectNodes(nodes, arg[t])
    /\ \E e \in {nil, errSave} :
        /\ Return(t, op[t], managedConnectSaved(e))
        /\ saveErr' = [Rest(saveErr, nil, t) EXCEPT ![t] = e]
    /\ rpc' = callInitRPCs(rpc, arg[t])
    /\ UNCHANGED <<blocklist, myAddr, log, threads, blocked, link, mu, lis,
                   cm, cache, reg, up>>
    /\ Kept(t, <<"op", "arg", "p", "conn", "phase">>)

\* ------------------------------------------------------------- Disconnect
\* Disconnect: threads.Add(), then the lookup under the shared lock.
DisconnectLookup(t, o, addr) ==
    /\ conn' = [Rest(conn, "none", t) EXCEPT ![t] = "none"]
    /\ phase' = [Rest(phase, "none", t) EXCEPT ![t] = "none"]
    /\ IF Add # nil
       THEN /\ p' = Rest(p, 0, t)
            /\ Return(t, o, Add)
       ELSE IF addr \in DOMAIN peers
       THEN /\ p' = [Rest(p, 0, t) EXCEPT ![t] = peers[addr].id]
            /\ pc' = [pc EXCEPT ![t] = "close"]
            /\ ret' = [Rest(ret, nil, t) EXCEPT ![t] = nil]
       ELSE /\ p' = Rest(p, 0, t)
            /\ Return(t, o, errNotConnected)
    /\ UNCHANGED <<gateway, log, threads, blocked, link, mu, lis, rpc, cm, cache, reg, up>>
    /\ saveErr' = [Rest(saveErr, nil, t) EXCEPT ![t] = nil]

Disconnect(t, addr) ==
    /\ Call(t, "Disconnect", addr)
    /\ DisconnectLookup(t, "Disconnect", addr)

\* Disconnect: p.sess.Close(), before the exclusive lock is taken.
DisconnectClose(t) ==
    /\ pc[t] = "close"
    /\ sess' = Close(sess, p[t])
    /\ pc' = [pc EXCEPT ![t] = "delete"]
    /\ UNCHANGED <<peers, nodes, blocklist, myAddr, log, threads, blocked, link, mu, lis, rpc, cm, cache, reg, up>>
    /\ Kept(t, <<"op", "arg", "p", "conn", "saveErr", "ret", "phase">>)

\* Mutant: the peer stays in the peer table.
DisconnectPeersKept(tbl, addr) == tbl

\* The peer table after Disconnect's delete(g.peers, addr).
DisconnectPeers(tbl, addr) == MapDelete(tbl, addr)

\* Mutant: the node stays in the node table.
DisconnectNodesKept(tbl, addr) == tbl

\* The node table after Disconnect's delete(g.nodes, addr).
DisconnectNodes(tbl, addr) == MapDelete(tbl, addr)

\* Disconnect: the two deletes under the exclusive lock.
DisconnectDelete(t) ==
    /\ pc[t] = "delete"
    /\ peers' = DisconnectPeers(peers, arg[t])
    /\ nodes' = DisconnectNodes(nodes, arg[t])
    /\ p' = [Rest(p, 0, t) EXCEPT ![t] = 0]
    /\ Return(t, op[t], nil)
    /\ UNCHANGED <<blocklist, myAddr, sess, log, threads, blocked, link, mu, lis, rpc, cm, cache, reg, up>>
    /\ Kept(t, <<"op", "arg", "conn", "saveErr", "phase">>)

\* ---------------------------------------------------------- ConnectManual
\* Mutant: the host stays in the blocklist.
ConnectManualBlocklistKept(bl, addr) == bl

\* The blocklist after ConnectManual's delete(g.blocklist, addr.Host()).
ConnectManualBlocklist(bl, addr) == bl \ {Host(addr)}

\* ConnectManual: the section under the exclusive lock; saveSync may fail.
ConnectManual(t, addr) ==
    /\ CanCreate
    /\ Call(t, "ConnectManual", addr)
    /\ IF Host(addr) \in blocklist
       THEN /\ blocklist' = ConnectManualBlocklist(blocklist, addr)
            /\ \E e \in {nil, errSave} :
                saveErr' = [Rest(saveErr, nil, t) EXCEPT ![t] = e]
       ELSE /\ blocklist' = blocklist
            /\ saveErr' = [Rest(saveErr, nil, t) EXCEPT ![t] = nil]
    /\ blocked' = blocked \ {addr}
    /\ pc' = [pc EXCEPT ![t] = "cm_connect"]
    /\ conn' = [Rest(conn, "none", t) EXCEPT ![t] = "none"]
    /\ phase' = [Rest(phase, "none", t) EXCEPT ![t] = "none"]
    /\ ret' = [Rest(ret, nil, t) EXCEPT ![t] = nil]
    /\ UNCHANGED <<peers, nodes, myAddr, sess, log, threads, link, mu, lis, rpc, cm, cache, reg, up>>
    /\ Kept(t, <<"p">>)

\* ConnectManual: the call of Connect, up to its blocklist lookup.
ConnectManualConnect(t) ==
    /\ pc[t] = "cm_connect"
    /\ ConnectEnter(t, op[t], arg[t])
    /\ saveErr' = [Rest(saveErr, nil, t) EXCEPT
                        ![t] = IF pc'[t] = "idle" THEN nil ELSE @]
    /\ UNCHANGED <<gateway, log, threads, blocked, link, mu, lis, rpc, cm, cache, reg, up>>
    /\ Kept(t, <<"op", "arg", "p", "conn", "phase">>)

\* ------------------------------------------------------- DisconnectManual
DisconnectManual(t, addr) ==
    /\ Call(t, "DisconnectManual", addr)
    /\ DisconnectLookup(t, "DisconnectManual", addr)

\* Mutant: the host is not added to the blocklist.
DisconnectManualBlocklistSkipped(bl, addr) == bl

\* The blocklist after DisconnectManual's g.blocklist[addr.Host()] = struct{}{}.
DisconnectManualBlocklist(bl, addr) == bl \cup {Host(addr)}

\* DisconnectManual: after a successful Disconnect, the section under the
\* exclusive lock; the error of saveSync is returned.
DisconnectManualBlock(t) ==
    /\ pc[t] = "dm_block"
    /\ blocklist' = DisconnectManualBlocklist(blocklist, arg[t])
    /\ \E e \in {nil, errSave} :
        /\ ret' = [Rest(ret, nil, t) EXCEPT ![t] = e]
        /\ blocked' = IF e = nil THEN blocked \cup {arg[t]} ELSE blocked
    /\ pc' = [pc EXCEPT ![t] = "idle"]
    /\ UNCHANGED <<peers, nodes, myAddr, sess, log, threads, link, mu, lis, rpc, cm, cache, reg, up>>
    /\ Kept(t, <<"op", "arg", "p", "conn", "saveErr", "phase">>)

\* ----------------------------------------------------- threadedAcceptConn
\* Mutant: the address the remote advertises is taken as it is.
RemoteAddrAdvertised(sock, header) == header

\* The address managedAcceptConnPeer gives the peer: the socket's IP with
\* the port of the remote's session header.
RemoteAddr(sock, header) == JoinHostPort(Host(sock), Port(header))

\* Mutant: the blocklist is not consulted.
AcceptBlockedNever(sock, bl) == FALSE

\* threadedAcceptConn: the socket's host is in the blocklist.
AcceptBlocked(sock, bl) == Host(sock) \in bl

\* managedAcceptConnPeer: the remote's header first, then ours.
managedAcceptConnPeer(remote, ourHeader) ==
    IF exchangeRemoteHeader(remote.header, ourHeader).err # nil
    THEN exchangeRemoteHeader(remote.header, ourHeader).err
    ELSE exchangeOurHeader(remote.response)

\* threadedAcceptConn from acceptVersionHandshake to the end of the
\* handshake: the error and the phase the handshake reached.
threadedAcceptHandshake(remote, ourHeader) ==
    LET v == acceptVersionHandshake(remote.version, ProtocolVersion) IN
    IF v.err # nil THEN [err |-> v.err, phase |-> "version"]
    ELSE IF acceptableVersion(v.remoteVersion) # nil
    THEN [err |-> acceptableVersion(v.remoteVersion), phase |-> "version"]
    ELSE IF managedAcceptConnPeer(remote, ourHeader) # nil
    THEN [err |-> managedAcceptConnPeer(remote, ourHeader),
          phase |-> "header"]
    ELSE [err |-> nil, phase |-> "done"]

\* threadedAcceptConn up to acceptPeer: threads.Add(), the blocklist lookup
\* under the shared lock, then the handshakes on the connection.  When
\* Add() fails, the host is blocklisted or the handshake fails the
\* connection is closed; otherwise the remote's header gave the port of the
\* peer's address.
AcceptConn(t, remote) ==
    /\ CanCreate
    /\ pc[t] = "idle"
    /\ op' = [Rest(op, "none", t) EXCEPT ![t] = "Accept"]
    /\ ret' = [Rest(ret, nil, t) EXCEPT ![t] = nil]
    /\ IF Add # nil \/ AcceptBlocked(remote.sock, blocklist)
       THEN /\ arg' = [Rest(arg, myAddr, t) EXCEPT ![t] = remote.sock]
            /\ conn' = [Rest(conn, "none", t) EXCEPT ![t] = "closed"]
            /\ phase' = [Rest(phase, "none", t) EXCEPT ![t] = "none"]
            /\ pc' = pc
       ELSE LET h == threadedAcceptHandshake(remote, OurHeader) IN
            IF h.err # nil
            THEN /\ arg' = [Rest(arg, myAddr, t) EXCEPT ![t] = remote.sock]
                 /\ conn' = [Rest(conn, "none", t) EXCEPT ![t] = "closed"]
                 /\ phase' = [Rest(phase, "none", t) EXCEPT ![t] = h.phase]
                 /\ pc' = pc
            ELSE /\ arg' = [Rest(arg, myAddr, t) EXCEPT ![t] =
                        RemoteAddr(remote.sock, remote.header[1].NetAddress)]
                 /\ conn' = [Rest(conn, "none", t) EXCEPT ![t] = "open"]
                 /\ phase' = [Rest(phase, "none", t) EXCEPT ![t] = "done"]
                 /\ pc' = [pc EXCEPT ![t] = "acc_admit"]
    /\ UNCHANGED <<gateway, log, threads, blocked, link, mu, lis, rpc, cm, cache, reg, up>>
    /\ saveErr' = [Rest(saveErr, nil, t) EXCEPT ![t] = nil]
    /\ Kept(t, <<"p">>)

\* The peer managedAcceptConnPeer builds.
AcceptedPeer(id, addr) == NewPeer(id, TRUE, addr)

\* Mutant: the kick removes the victim's node as well, as Disconnect does.
AcceptAdmitDropsNode(t) ==
    /\ pc[t] = "acc_admit"
    /\ LET np == AcceptedPeer(NextId, arg[t]) IN
        \E kick \in KickChoices(peers, np) :
            /\ peers' = acceptPeer(peers, np, kick)
            /\ sess' = acceptPeerSess(sess, peers, np, kick)
            /\ nodes' = [a \in DOMAIN nodes \ kick |-> nodes[a]]
            /\ log' = [called |-> TRUE, n |-> Cardinality(DOMAIN peers),
                       new |-> np.NetAddress, kick |-> kick]
    /\ pc' = [pc EXCEPT ![t] = "acc_ping"]
    /\ UNCHANGED <<blocklist, myAddr, threads, blocked, link, mu, lis, rpc, cm, cache, reg, up>>
    /\ Kept(t, <<"op", "arg", "p", "conn", "saveErr", "ret", "phase">>)

\* managedAcceptConnPeer: acceptPeer under the exclusive lock; then
\* threadedAcceptConn returns (threads.Done()) and the probe of the peer's
\* address runs on in a task of its own.
AcceptAdmit(t) ==
    /\ pc[t] = "acc_admit"
    /\ LET np == AcceptedPeer(NextId, arg[t]) IN
        \E kick \in KickChoices(peers, np) :
            /\ peers' = acceptPeer(peers, np, kick)
            /\ sess' = acceptPeerSess(sess, peers, np, kick)
            /\ log' = [called |-> TRUE, n |-> Cardinality(DOMAIN peers),
                       new |-> np.NetAddress, kick |-> kick]
    /\ pc' = [pc EXCEPT ![t] = "acc_ping"]
    /\ UNCHANGED <<nodes, blocklist, myAddr, threads, blocked, link, mu, lis, rpc, cm, cache, reg, up>>
    /\ Kept(t, <<"op", "arg", "p", "conn", "saveErr", "ret", "phase">>)

\* managedAcceptConnPeer's goroutine: the probe of the peer's address and,
\* when it answers, addNode under the exclusive lock.
AcceptPing(t) ==
    /\ pc[t] = "acc_ping"
    /\ \E ok \in BOOLEAN :
        nodes' = IF ok THEN addNode(nodes, arg[t]) ELSE nodes
    /\ pc' = [pc EXCEPT ![t] = "idle"]
    /\ UNCHANGED <<peers, blocklist, myAddr, sess, log, threads, blocked, link, mu, lis, rpc, cm, cache, reg, up>>
    /\ Kept(t, <<"op", "arg", "p", "conn", "saveErr", "ret", "phase">>)

\* ------------------------------------------------------------------- Next
Next ==
    \E t \in Tasks :
        \/ \E addr \in NetAddresses : Connect(t, addr)
        \/ ConnectExists(t)
        \/ ConnectAdd(t)
        \/ \E addr \in NetAddresses : Disconnect(t, addr)
        \/ DisconnectClose(t)
        \/ DisconnectDelete(t)
        \/ \E addr \in NetAddresses : ConnectManual(t, addr)
        \/ ConnectManualConnect(t)
        \/ \E addr \in NetAddresses : DisconnectManual(t, addr)
        \/ DisconnectManualBlock(t)
        \/ \E remote \in Inbound : AcceptConn(t, remote)
        \/ AcceptAdmit(t)
        \/ AcceptPing(t)

\* The gateway while it runs: Close is not called.
Spec == Init /\ [][Next]_vars

\* ---------------------------------------------------------------- shutdown
\* threads.Stop() is called: from now on Add() refuses.  The locals of the
\* calls that have returned are forgotten, as in every other step.
Stop ==
    /\ threads = "running"
    /\ threads' = "stopping"
    /\ UNCHANGED <<gateway, log, pc, blocked, link, mu, lis, rpc, cm, cache, reg, up>>
    /\ Kept("none", <<"op", "arg", "p", "conn", "saveErr", "ret", "phase">>)

\* threads.Stop() returns: every task that registered with Add() has
\* called Done().
StopWait ==
    /\ threads = "stopping"
    /\ \A t \in Tasks : ~Registered(t)
    /\ threads' = "stopped"
    /\ UNCHANGED <<gateway, log, pc, blocked, link, mu, lis, rpc, cm, cache, reg, up>>
    /\ Kept("none", <<"op", "arg", "p", "conn", "saveErr", "ret", "phase">>)

NextStop ==
    \/ \E t \in Tasks :
        \/ \E addr \in NetAddresses : Connect(t, addr)
        \/ ConnectExists(t)
        \/ ConnectAdd(t)
        \/ \E addr \in NetAddresses : Disconnect(t, addr)
        \/ DisconnectClose(t)
        \/ DisconnectDelete(t)
        \/ \E addr \in NetAddresses : ConnectManual(t, addr)
        \/ ConnectManualConnect(t)
        \/ \E addr \in NetAddresses : DisconnectManual(t, addr)
        \/ DisconnectManualBlock(t)
        \/ \E remote \in Inbound : AcceptConn(t, remote)
        \/ AcceptAdmit(t)
        \/ AcceptPing(t)
    \/ Stop
    \/ StopWait

\* The gateway from its start to the end of its shutdown.
SpecStop == Init /\ [][NextStop]_vars

\* ---------------------------------------------------------- callInitRPCs
\* A task of callInitRPCs is known by the address and the name of the RPC
\* it was spawned for.
InitRPCKeys == NetAddresses \X InitRPCNames

\* The tasks of callInitRPCs are followed: connects counts the calls of
\* callInitRPCs by address, spawned the tasks that have not run yet, called
\* the calls of managedRPC, refused the tasks that ended at threads.Add().
FollowRPC ==
    [on |-> TRUE,
     connects |-> [a \in NetAddresses |-> 0],
     spawned |-> [k \in InitRPCKeys |-> 0],
     called |-> [k \in InitRPCKeys |-> 0],
     refused |-> [k \in InitRPCKeys |-> 0]]

\* Mutant: the task calls the RPC whether threads.Add() refused or not.
InitRPCTaskUnregistered(k) ==
    /\ rpc.on
    /\ rpc.spawned[k] > 0
    /\ rpc' = [rpc EXCEPT !.spawned[k] = @ - 1, !.called[k] = @ + 1]
    /\ UNCHANGED <<gateway, log, pc, threads, blocked, link, mu, lis,
                   cm, cache, reg, up>>
    /\ Kept("none", <<"op", "arg", "p", "conn", "saveErr", "ret", "phase">>)

\* One task of callInitRPCs, from threads.Add() to threads.Done(): it ends
\* at once when Add() refuses and calls managedRPC(addr, name, fn)
\* otherwise.
InitRPCTask(k) ==
    /\ rpc.on
    /\ rpc.spawned[k] > 0
    /\ rpc' = IF Add # nil
              THEN [rpc EXCEPT !.spawned[k] = @ - 1, !.refused[k] = @ + 1]
              ELSE [rpc EXCEPT !.spawned[k] = @ - 1, !.called[k] = @ + 1]
    /\ UNCHANGED <<gateway, log, pc, threads, blocked, link, mu, lis,
                   cm, cache, reg, up>>
    /\ Kept("none", <<"op", "arg", "p", "conn", "saveErr", "ret", "phase">>)

InitInitRPC ==
    /\ peers = EmptyMap
    /\ nodes = EmptyMap
    /\ blocklist = {}
    /\ myAddr = JoinHostPort("127.0.0.1", 1)
    /\ sess = EmptyMap
    /\ log = NoLog
    /\ pc = [t \in Tasks |-> "idle"]
    /\ op = [t \in Tasks |-> "none"]
    /\ arg = [t \in Tasks |-> myAddr]
    /\ p = [t \in Tasks |-> 0]
    /\ conn = [t \in Tasks |-> "none"]
    /\ saveErr = [t \in Tasks |-> nil]
    /\ ret = [t \in Tasks |-> nil]
    /\ phase = [t \in Tasks |-> "none"]
    /\ threads = "running"
    /\ blocked = {}
    /\ link = NoLink
    /\ mu = MuFree
    /\ lis = NoListener
    /\ rpc = FollowRPC
    /\ cm = NoSectors
    /\ cache = NoCache
    /\ reg = NoRegistry
    /\ up = NoUpload

NextInitRPC ==
    \/ \E t \in Tasks :
        \/ \E addr \in NetAddresses : Connect(t, addr)
        \/ ConnectExists(t)
        \/ ConnectAdd(t)
        \/ \E remote \in Inbound : AcceptConn(t, remote)
        \/ AcceptAdmit(t)
        \/ AcceptPing(t)
    \/ \E k \in InitRPCKeys : InitRPCTask(k)
    \/ Stop
    \/ StopWait

\* Connect, the inbound connections and the shutdown, with the tasks of
\* callInitRPCs.
SpecInitRPC == InitInitRPC /\ [][NextInitRPC]_vars

\* ------------------------------------------------- acceptPeer on any table
\* The addresses of the peers in the tables acceptPeer is applied to.
AdmitAddresses ==
    <<JoinHostPort("1.1.1.1", 1), JoinHostPort("1.1.1.1", 2),
      JoinHostPort("2.2.2.2", 1), JoinHostPort("127.0.0.1", 2)>>

\* The peer table with the peers of kind: "in" an inbound peer, "out" an
\* outbound one, numbered in the order of AdmitAddresses.
AdmitTable(kind) ==
    LET present == {i \in DOMAIN kind : kind[i] # "absent"}
        rank(i) == Cardinality({j \in present : j <= i})
    IN  [a \in {AdmitAddresses[i] : i \in present} |->
            LET i == CHOOSE j \in present : AdmitAddresses[j] = a
            IN  NewPeer(rank(i), kind[i] = "in", a)]

\* The tables the gateway can hold: acceptPeer keeps the inbound peers that
\* are not local within the threshold.
AdmitTables ==
    {tbl \in {AdmitTable(kind) :
                kind \in [DOMAIN AdmitAddresses -> {"absent", "in", "out"}]} :
        Cardinality({a \in DOMAIN tbl : tbl[a].Inbound /\ ~tbl[a].Local})
            <= fullyConnectedThreshold}

\* A task is about to call acceptPeer with a new inbound peer; every peer in
\* the table has its session open.
InitAdmit ==
    /\ peers \in AdmitTables
    /\ nodes = EmptyMap
    /\ blocklist = {}
    /\ myAddr = JoinHostPort("127.0.0.1", 1)
    /\ sess = [i \in 1..Cardinality(DOMAIN peers) |-> NewSession(myAddr)]
    /\ log = NoLog
    /\ pc = [t \in Tasks |-> IF t = "t1" THEN "acc_admit" ELSE "idle"]
    /\ op = [t \in Tasks |-> IF t = "t1" THEN "Accept" ELSE "none"]
    /\ \E i \in DOMAIN AdmitAddresses :
        arg = [t \in Tasks |-> IF t = "t1" THEN AdmitAddresses[i] ELSE myAddr]
    /\ p = [t \in Tasks |-> 0]
    /\ conn = [t \in Tasks |-> IF t = "t1" THEN "open" ELSE "none"]
    /\ saveErr = [t \in Tasks |-> nil]
    /\ ret = [t \in Tasks |-> nil]
    /\ phase = [t \in Tasks |-> IF t = "t1" THEN "done" ELSE "none"]
    /\ threads = "running"
    /\ blocked = {}
    /\ link = NoLink
    /\ mu = MuFree
    /\ lis = NoListener
    /\ rpc = NoRPC
    /\ cm = NoSectors
    /\ cache = NoCache
    /\ reg = NoRegistry
    /\ up = NoUpload

NextAdmit == \E t \in Tasks : AcceptAdmit(t) \/ AcceptPing(t)

SpecAdmit == InitAdmit /\ [][NextAdmit]_vars

\* ------------------------------------------- inserts on a crowded table
\* The positions a task is in when the table is looked at: outside a call,
\* in managedConnect before its insert, or in managedAcceptConnPeer before
\* acceptPeer.
CrowdPositions == {"idle", "add", "acc_admit"}

\* The address Disconnect, DisconnectManual and ConnectManual are called
\* with.
CrowdDisconnects == {JoinHostPort("1.1.1.1", 1)}

\* The gateway holds any table it can hold, with every session open and
\* the address of every peer in the node table (Connect has recorded the
\* outbound peers, the probes of the inbound ones were answered), and each
\* task is idle or about to insert a peer for any address.
InitCrowd ==
    /\ peers \in AdmitTables
    /\ nodes = [a \in DOMAIN peers |->
                    [WasOutboundPeer |-> ~peers[a].Inbound]]
    /\ blocklist = {}
    /\ myAddr = JoinHostPort("127.0.0.1", 1)
    /\ sess = [i \in 1..Cardinality(DOMAIN peers) |-> NewSession(myAddr)]
    /\ log = NoLog
    /\ pc \in [Tasks -> CrowdPositions]
    /\ op = [t \in Tasks |-> CASE pc[t] = "add" -> "Connect"
                               [] pc[t] = "acc_admit" -> "Accept"
                               [] OTHER -> "none"]
    /\ arg \in [Tasks -> {AdmitAddresses[i] : i \in DOMAIN AdmitAddresses}
                            \cup {myAddr}]
    /\ \A t \in Tasks : pc[t] = "idle" <=> arg[t] = myAddr
    /\ p = [t \in Tasks |-> 0]
    /\ conn = [t \in Tasks |-> IF pc[t] = "idle" THEN "none" ELSE "open"]
    /\ saveErr = [t \in Tasks |-> nil]
    /\ ret = [t \in Tasks |-> nil]
    /\ phase = [t \in Tasks |-> IF pc[t] = "idle" THEN "none" ELSE "done"]
    /\ threads = "running"
    /\ blocked = {}
    /\ link = NoLink
    /\ mu = MuFree
    /\ lis = NoListener
    /\ rpc = NoRPC
    /\ cm = NoSectors
    /\ cache = NoCache
    /\ reg = NoRegistry
    /\ up = NoUpload

NextCrowd ==
    \E t \in Tasks :
        \/ ConnectAdd(t)
        \/ AcceptAdmit(t)
        \/ \E addr \in CrowdDisconnects : Disconnect(t, addr)
        \/ DisconnectClose(t)
        \/ DisconnectDelete(t)
        \/ \E addr \in CrowdDisconnects : DisconnectManual(t, addr)
        \/ DisconnectManualBlock(t)
        \/ \E addr \in CrowdDisconnects : ConnectManual(t, addr)
        \/ ConnectManualConnect(t)
        \/ ConnectExists(t)

\* The inserts of Connect and of the inbound connections and the calls of
\* Disconnect, DisconnectManual and ConnectManual, in any order, on any
\* table.  The probe that follows an
\* admission is left out: it does not touch the peer table.
SpecCrowd == InitCrowd /\ [][NextCrowd]_vars

\* --------------------------------------- two gateways, message by message
\* Gateway A dials gateway B over a connection that delivers what is
\* written, in order.  link.a and link.b are the positions of A in
\* managedConnect and of B in threadedAcceptConn; ab and ba hold the objects
\* written and not yet read; wroteA and wroteB are all objects written.

\* The versions a gateway may be built with: never the rejection sentinel.
OwnVersions == VersionStrings \ {"reject"}

\* The deadline of the connection staticDial returns to managedConnect.
DialedDeadline == "set"

\* The connections followed: A has its connection from staticDial, B is
\* past conn.SetDeadline(connStdDeadline); A sends any version string, B is built with
\* any version, is on the same chain as A or on another, is another gateway
\* or A itself, and each advertises a valid or an invalid address; A
\* advertises the host its connection comes from or another one.
Links ==
    {[a |-> "write", b |-> "version",
      versionA |-> va, versionB |-> vb,
      headerA |-> sessionHeader(GenesisID, staticID, JoinHostPort(ha, qa)),
      headerB |-> sessionHeader(gb, ib, JoinHostPort("2.2.2.2", qb)),
      sock |-> JoinHostPort("1.1.1.1", 2),
      addr |-> JoinHostPort("2.2.2.2", 1),
      ab |-> << >>, ba |-> << >>, wroteA |-> << >>, wroteB |-> << >>,
      connA |-> "open", connB |-> "open", errA |-> nil, errB |-> nil,
      deadlineA |-> DialedDeadline, deadlineB |-> "set",
      remoteVersionA |-> "", remoteVersionB |-> "",
      remoteAddrB |-> JoinHostPort("", 0),
      probe |-> "none", pinged |-> JoinHostPort("", 0),
      peersA |-> EmptyMap, peersB |-> EmptyMap,
      nodesA |-> EmptyMap, nodesB |-> EmptyMap] :
        va \in VersionStrings, vb \in OwnVersions,
        gb \in {GenesisID, OtherGenesisID}, ib \in {"remote", staticID},
        ha \in {"1.1.1.1", "3.3.3.3"}, qa \in {0, 1}, qb \in {0, 1}}

\* encoding.ReadObject returns once an object has arrived or the remote has
\* closed the connection.
Readable(q, remoteConn) == Len(q) > 0 \/ remoteConn = "closed"

\* What encoding.ReadObject yields from the objects in flight.
ReadObject(q) == IF Len(q) > 0 THEN <<Head(q)>> ELSE ReadFailed

\* The objects in flight after the read.
AfterRead(q) == IF Len(q) > 0 THEN Tail(q) ELSE q

\* Mutant: the deadline is removed before the connection is closed.
FailedANoDeadline(l, err) ==
    [l EXCEPT !.a = "failed", !.errA = err, !.connA = "closed",
              !.deadlineA = "none"]

\* managedConnect returns err: conn.Close() and return.
FailedA(l, err) ==
    [l EXCEPT !.a = "failed", !.errA = err, !.connA = "closed"]

\* threadedAcceptConn ends on err: conn.Close() and return.
FailedB(l, err) ==
    [l EXCEPT !.b = "failed", !.errB = err, !.connB = "closed"]

\* What the exchange between A and B leaves alone: the state of the gateway
\* followed task by task.
local == <<peers, nodes, blocklist, myAddr, sess, log, pc, op, arg, p,
           conn, saveErr, ret, phase, threads, blocked, mu, lis, rpc, cm, cache, reg, up>>

\* connectVersionHandshake: A sends its version.
HsConnectWrite ==
    /\ link.a = "write"
    /\ link' = [link EXCEPT !.a = "version",
                            !.ab = Append(@, link.versionA),
                            !.wroteA = Append(@, link.versionA)]
    /\ UNCHANGED local

\* connectVersionHandshake: A reads the remote version; when it is
\* acceptable managedConnectPeer sends A's header (exchangeOurHeader).
HsConnectVersion ==
    /\ link.a = "version"
    /\ Readable(link.ba, link.connB)
    /\ LET r == connectVersionHandshake(ReadObject(link.ba))
           l == [link EXCEPT !.ba = AfterRead(@)]
       IN  link' =
            IF r.err # nil THEN FailedA(l, r.err)
            ELSE IF acceptableVersion(r.remoteVersion) # nil
            THEN FailedA(l, acceptableVersion(r.remoteVersion))
            ELSE [l EXCEPT !.a = "response",
                           !.remoteVersionA = r.remoteVersion,
                           !.ab = Append(@, link.headerA),
                           !.wroteA = Append(@, link.headerA)]
    /\ UNCHANGED local

\* exchangeOurHeader: A reads the response to its header.
HsConnectResponse ==
    /\ link.a = "response"
    /\ Readable(link.ba, link.connB)
    /\ LET e == exchangeOurHeader(ReadObject(link.ba))
           l == [link EXCEPT !.ba = AfterRead(@)]
       IN  link' = IF e # nil THEN FailedA(l, e)
                   ELSE [l EXCEPT !.a = "header"]
    /\ UNCHANGED local

\* exchangeRemoteHeader: A reads B's header and answers; when the header
\* is acceptable managedConnect removes the deadline and adds the peer and
\* the node.
HsConnectHeader ==
    /\ link.a = "header"
    /\ Readable(link.ba, link.connB)
    /\ LET r == exchangeRemoteHeader(ReadObject(link.ba), link.headerA)
           l == [link EXCEPT !.ba = AfterRead(@),
                             !.ab = @ \o r.wrote,
                             !.wroteA = @ \o r.wrote]
       IN  link' =
            IF r.err # nil THEN FailedA(l, r.err)
            ELSE [l EXCEPT !.a = "done",
                           !.deadlineA = "none",
                           !.peersA = addPeer(@, ConnectPeer(1, link.addr)),
                           !.nodesA = ConnectNodes(@, link.addr)]
    /\ UNCHANGED local

\* Mutant: B goes on to the header exchange after a version exchange that
\* failed.
HsAcceptVersionGoesOn ==
    /\ link.b = "version"
    /\ Readable(link.ab, link.connA)
    /\ LET r == acceptVersionHandshake(ReadObject(link.ab), link.versionB)
           l == [link EXCEPT !.ab = AfterRead(@),
                             !.ba = @ \o r.wrote,
                             !.wroteB = @ \o r.wrote]
       IN  link' = [l EXCEPT !.b = "header",
                             !.remoteVersionB = r.remoteVersion]
    /\ UNCHANGED local

\* acceptVersionHandshake: B reads the remote version and answers with
\* its own version or with the rejection.
HsAcceptVersion ==
    /\ link.b = "version"
    /\ Readable(link.ab, link.connA)
    /\ LET r == acceptVersionHandshake(ReadObject(link.ab), link.versionB)
           l == [link EXCEPT !.ab = AfterRead(@),
                             !.ba = @ \o r.wrote,
                             !.wroteB = @ \o r.wrote]
       IN  link' =
            IF r.err # nil THEN FailedB(l, r.err)
            ELSE IF acceptableVersion(r.remoteVersion) # nil
            THEN FailedB(l, acceptableVersion(r.remoteVersion))
            ELSE [l EXCEPT !.b = "header",
                           !.remoteVersionB = r.remoteVersion]
    /\ UNCHANGED local

\* Mutant: B answers A's header and waits for the response to its own
\* header without having sent it.
HsAcceptHeaderUnsent ==
    /\ link.b = "header"
    /\ Readable(link.ab, link.connA)
    /\ LET read == ReadObject(link.ab)
           r == exchangeRemoteHeader(read, link.headerB)
           l == [link EXCEPT !.ab = AfterRead(@),
                             !.ba = @ \o r.wrote,
                             !.wroteB = @ \o r.wrote]
       IN  link' =
            IF r.err # nil THEN FailedB(l, r.err)
            ELSE [l EXCEPT !.b = "response",
                           !.remoteAddrB =
                               RemoteAddr(link.sock, read[1].NetAddress)]
    /\ UNCHANGED local

\* managedAcceptConnPeer: exchangeRemoteHeader reads A's header and
\* answers; when the header is acceptable exchangeOurHeader sends B's.
HsAcceptHeader ==
    /\ link.b = "header"
    /\ Readable(link.ab, link.connA)
    /\ LET read == ReadObject(link.ab)
           r == exchangeRemoteHeader(read, link.headerB)
           l == [link EXCEPT !.ab = AfterRead(@),
                             !.ba = @ \o r.wrote,
                             !.wroteB = @ \o r.wrote]
       IN  link' =
            IF r.err # nil THEN FailedB(l, r.err)
            ELSE [l EXCEPT !.b = "response",
                           !.remoteAddrB =
                               RemoteAddr(link.sock, read[1].NetAddress),
                           !.ba = Append(@, link.headerB),
                           !.wroteB = Append(@, link.headerB)]
    /\ UNCHANGED local

\* exchangeOurHeader: B reads the response to its header; on acceptance
\* managedAcceptConnPeer builds the peer, acceptPeer adds it and the probe
\* of the peer is started; threadedAcceptConn then removes the deadline.
HsAcceptResponse ==
    /\ link.b = "response"
    /\ Readable(link.ab, link.connA)
    /\ LET e == exchangeOurHeader(ReadObject(link.ab))
           l == [link EXCEPT !.ab = AfterRead(@)]
           np == AcceptedPeer(1, link.remoteAddrB)
       IN  link' =
            IF e # nil THEN FailedB(l, e)
            ELSE [l EXCEPT !.b = "done",
                           !.deadlineB = "none",
                           !.peersB = acceptPeer(@, np, {}),
                           !.probe = "pending"]
    /\ UNCHANGED local

\* managedAcceptConnPeer's goroutine at B: staticPingNode(remoteAddr) and,
\* when the address answers, addNode(remoteAddr).
HsAcceptPing ==
    /\ link.probe = "pending"
    /\ \E ok \in BOOLEAN :
        link' = [link EXCEPT
                    !.pinged = link.remoteAddrB,
                    !.probe = IF ok THEN "answered" ELSE "failed",
                    !.nodesB = IF ok THEN addNode(@, link.remoteAddrB) ELSE @]
    /\ UNCHANGED local

InitHandshake ==
    /\ peers = EmptyMap
    /\ nodes = EmptyMap
    /\ blocklist = {}
    /\ myAddr = JoinHostPort("127.0.0.1", 1)
    /\ sess = EmptyMap
    /\ log = NoLog
    /\ pc = [t \in Tasks |-> "idle"]
    /\ op = [t \in Tasks |-> "none"]
    /\ arg = [t \in Tasks |-> myAddr]
    /\ p = [t \in Tasks |-> 0]
    /\ conn = [t \in Tasks |-> "none"]
    /\ saveErr = [t \in Tasks |-> nil]
    /\ ret = [t \in Tasks |-> nil]
    /\ phase = [t \in Tasks |-> "none"]
    /\ threads = "running"
    /\ blocked = {}
    /\ link \in Links
    /\ mu = MuFree
    /\ lis = NoListener
    /\ rpc = NoRPC
    /\ cm = NoSectors
    /\ cache = NoCache
    /\ reg = NoRegistry
    /\ up = NoUpload

NextHandshake ==
    \/ HsConnectWrite
    \/ HsConnectVersion
    \/ HsConnectResponse
    \/ HsConnectHeader
    \/ HsAcceptVersion
    \/ HsAcceptHeader
    \/ HsAcceptResponse
    \/ HsAcceptPing

SpecHandshake == InitHandshake /\ [][NextHandshake]_vars

\* Each side is a task of its own that goes on whenever the read it waits
\* for can return.
SpecHandshakeFair == SpecHandshake /\ WF_vars(NextHandshake)

\* ------------------------------------------------------------ g.mu in use
\* What the gateway's operations do with g.mu and with the fields it
\* guards, in the order of the code, each with its line: RLock, RUnlock,
\* Lock, Unlock, a read or a write of a field.  Each operation is followed
\* along its longest path; its early returns leave it where it holds no
\* half of g.mu.
I(do, field, line) == [do |-> do, field |-> field, line |-> line]

\* Connect: managedConnect and, within it, managedConnectPeer.
ConnectLocking ==
    <<I("RLock", "mu", 436), I("read", "myAddr", 437), I("RUnlock", "mu", 438),
      I("read", "blocklist", 454),
      I("RLock", "mu", 459), I("read", "peers", 460), I("RUnlock", "mu", 461),
      I("read", "myAddr", 413),
      I("RLock", "mu", 415), I("read", "myAddr", 419), I("RUnlock", "mu", 421),
      I("Lock", "mu", 497), I("write", "peers", 500), I("write", "nodes", 511),
      I("write", "nodes", 512), I("read", "nodes", 514), I("Unlock", "mu", 498)>>

DisconnectLocking ==
    <<I("RLock", "mu", 545), I("read", "peers", 546), I("RUnlock", "mu", 547),
      I("Lock", "mu", 555), I("write", "peers", 558), I("write", "nodes", 559),
      I("Unlock", "mu", 560)>>

\* ConnectManual: its own section, then Connect.
ConnectManualLocking ==
    <<I("Lock", "mu", 571), I("read", "blocklist", 573),
      I("write", "blocklist", 575), I("read", "blocklist", 576),
      I("Unlock", "mu", 578)>> \o ConnectLocking

\* DisconnectManual: Disconnect, then its own section.
DisconnectManualLocking ==
    DisconnectLocking \o
    <<I("Lock", "mu", 590), I("write", "blocklist", 591),
      I("read", "blocklist", 592), I("Unlock", "mu", 593)>>

OnlineLocking ==
    <<I("RLock", "mu", 613), I("read", "peers", 615), I("RUnlock", "mu", 614)>>

PeersLocking ==
    <<I("RLock", "mu", 625), I("read", "peers", 628), I("RUnlock", "mu", 626)>>

\* The inbound accept path: threadedAcceptConn, managedAcceptConnPeer with
\* acceptPeer, and the goroutine of the probe.
AcceptLocking ==
    <<I("RLock", "mu", 160), I("read", "blocklist", 161), I("RUnlock", "mu", 162),
      I("read", "myAddr", 207),
      I("RLock", "mu", 209), I("read", "myAddr", 213), I("RUnlock", "mu", 216),
      I("Lock", "mu", 252), I("read", "peers", 276), I("write", "peers", 311),
      I("write", "peers", 79), I("Unlock", "mu", 254),
      I("Lock", "mu", 263), I("write", "nodes", 264), I("Unlock", "mu", 265)>>

Locking ==
    [Connect |-> ConnectLocking, Disconnect |-> DisconnectLocking,
     ConnectManual |-> ConnectManualLocking,
     DisconnectManual |-> DisconnectManualLocking,
     Online |-> OnlineLocking, Peers |-> PeersLocking,
     Accept |-> AcceptLocking]

\* The instruction task t executes next.
Instruction(t) == Locking[mu.prog[t]][mu.at[t]]

\* Task t holds the shared half of g.mu, the exclusive half.
HoldsShared(t) == t \in mu.readers

HoldsExclusive(t) == mu.writer = t

\* mu after task t has moved past its instruction.
Advance(m, t) ==
    IF m.at[t] = Len(Locking[m.prog[t]])
    THEN [m EXCEPT !.prog[t] = "none", !.at[t] = 0]
    ELSE [m EXCEPT !.at[t] = @ + 1]

\* Task t calls operation o.
LockCall(t, o) ==
    /\ mu.prog[t] = "none"
    /\ mu' = [mu EXCEPT !.prog[t] = o, !.at[t] = 1]
    /\ UNCHANGED <<peers, nodes, blocklist, myAddr, sess, log, pc, op, arg, p,
                   conn, saveErr, ret, phase, threads, blocked, link, lis, rpc, cm, cache, reg, up>>

\* Task t executes its instruction: RLock waits for the writer to unlock,
\* Lock for the writer and the readers.
LockStep(t) ==
    /\ mu.prog[t] # "none"
    /\ LET i == Instruction(t) IN
        CASE i.do = "RLock" ->
                /\ mu.writer = "none"
                /\ mu' = Advance([mu EXCEPT !.readers = @ \cup {t}], t)
          [] i.do = "RUnlock" ->
                mu' = Advance([mu EXCEPT !.readers = @ \ {t}], t)
          [] i.do = "Lock" ->
                /\ mu.writer = "none"
                /\ mu.readers = {}
                /\ mu' = Advance([mu EXCEPT !.writer = t], t)
          [] i.do = "Unlock" ->
                mu' = Advance([mu EXCEPT !.writer = "none"], t)
          [] OTHER -> mu' = Advance(mu, t)
    /\ UNCHANGED <<peers, nodes, blocklist, myAddr, sess, log, pc, op, arg, p,
                   conn, saveErr, ret, phase, threads, blocked, link, lis, rpc, cm, cache, reg, up>>

NextLock ==
    \E t \in Tasks :
        \/ \E o \in DOMAIN Locking : LockCall(t, o)
        \/ LockStep(t)

\* The tasks of the gateway seen through their use of g.mu.
SpecLock == Init /\ [][NextLock]_vars

\* ------------------------------------------------------- permanentListen
\* The time the listener loop waits after each accept, in ticks of the
\* clock.
acceptInterval == 2

\* The clock stops at MaxTime.
MaxTime == 6

\* permanentListen has been started: it is in g.listener.Accept().  last is
\* the time of the last accept (-1: none yet), timer the time at which
\* time.After(acceptInterval) fires, stopAt the time at which the stop
\* signal was raised, afterStop the number of connections accepted since.
Listening ==
    [pc |-> "accept", listener |-> "open", stop |-> FALSE, closeChan |-> "open",
     now |-> 0, last |-> -1, timer |-> 0, stopAt |-> -1, afterStop |-> 0]

\* permanentListen can go on without waiting: Accept fails at once on a
\* closed listener, and the select returns when the timer has fired or the
\* stop channel is closed.
ListenReady ==
    \/ lis.pc = "accept" /\ lis.listener = "closed"
    \/ lis.pc = "sleep" /\ (lis.stop \/ lis.now >= lis.timer)

\* Time passes while permanentListen waits.
Tick ==
    /\ lis.pc # "none"
    /\ lis.now < MaxTime
    /\ ~ListenReady
    /\ lis' = [lis EXCEPT !.now = @ + 1]
    /\ UNCHANGED <<peers, nodes, blocklist, myAddr, sess, log, pc, op, arg, p,
                   conn, saveErr, ret, phase, threads, blocked, link, mu, rpc, cm, cache, reg, up>>

\* g.listener.Accept() returns a connection, which is handed to
\* threadedAcceptConn; permanentListen enters the select.
ListenAccept ==
    /\ lis.pc = "accept"
    /\ lis.listener = "open"
    /\ lis' = [lis EXCEPT !.pc = "sleep",
                          !.last = lis.now,
                          !.timer = lis.now + acceptInterval,
                          !.afterStop = IF lis.stop THEN @ + 1 ELSE @]
    /\ UNCHANGED <<peers, nodes, blocklist, myAddr, sess, log, pc, op, arg, p,
                   conn, saveErr, ret, phase, threads, blocked, link, mu, rpc, cm, cache, reg, up>>

\* g.listener.Accept() returns an error: permanentListen returns and the
\* deferred close(closeChan) runs.
ListenAcceptFails ==
    /\ lis.pc = "accept"
    /\ lis.listener = "closed"
    /\ lis' = [lis EXCEPT !.pc = "returned", !.closeChan = "closed"]
    /\ UNCHANGED <<peers, nodes, blocklist, myAddr, sess, log, pc, op, arg, p,
                   conn, saveErr, ret, phase, threads, blocked, link, mu, rpc, cm, cache, reg, up>>

\* Mutant: the loop goes back to Accept without waiting for the timer.
ListenWakeAtOnce ==
    /\ lis.pc = "sleep"
    /\ lis' = [lis EXCEPT !.pc = "accept"]
    /\ UNCHANGED <<peers, nodes, blocklist, myAddr, sess, log, pc, op, arg, p,
                   conn, saveErr, ret, phase, threads, blocked, link, mu, rpc, cm, cache, reg, up>>

\* The select takes the case of time.After(acceptInterval): back to Accept.
ListenWake ==
    /\ lis.pc = "sleep"
    /\ lis.now >= lis.timer
    /\ lis' = [lis EXCEPT !.pc = "accept"]
    /\ UNCHANGED <<peers, nodes, blocklist, myAddr, sess, log, pc, op, arg, p,
                   conn, saveErr, ret, phase, threads, blocked, link, mu, rpc, cm, cache, reg, up>>

\* The select takes the case of g.threads.StopChan(): permanentListen
\* returns and the deferred close(closeChan) runs.
ListenStopped ==
    /\ lis.pc = "sleep"
    /\ lis.stop
    /\ lis' = [lis EXCEPT !.pc = "returned", !.closeChan = "closed"]
    /\ UNCHANGED <<peers, nodes, blocklist, myAddr, sess, log, pc, op, arg, p,
                   conn, saveErr, ret, phase, threads, blocked, link, mu, rpc, cm, cache, reg, up>>

\* The stop signal is raised: the stop channel is closed.
StopSignal ==
    /\ lis.pc # "none"
    /\ ~lis.stop
    /\ lis' = [lis EXCEPT !.stop = TRUE, !.stopAt = lis.now]
    /\ UNCHANGED <<peers, nodes, blocklist, myAddr, sess, log, pc, op, arg, p,
                   conn, saveErr, ret, phase, threads, blocked, link, mu, rpc, cm, cache, reg, up>>

\* The listener stops working (it is closed, or the system refuses further
\* connections): g.listener.Accept() returns an error from then on.
ListenerClose ==
    /\ lis.pc # "none"
    /\ lis.listener = "open"
    /\ lis' = [lis EXCEPT !.listener = "closed"]
    /\ UNCHANGED <<peers, nodes, blocklist, myAddr, sess, log, pc, op, arg, p,
                   conn, saveErr, ret, phase, threads, blocked, link, mu, rpc, cm, cache, reg, up>>

InitListen ==
    /\ peers = EmptyMap
    /\ nodes = EmptyMap
    /\ blocklist = {}
    /\ myAddr = JoinHostPort("127.0.0.1", 1)
    /\ sess = EmptyMap
    /\ log = NoLog
    /\ pc = [t \in Tasks |-> "idle"]
    /\ op = [t \in Tasks |-> "none"]
    /\ arg = [t \in Tasks |-> myAddr]
    /\ p = [t \in Tasks |-> 0]
    /\ conn = [t \in Tasks |-> "none"]
    /\ saveErr = [t \in Tasks |-> nil]
    /\ ret = [t \in Tasks |-> nil]
    /\ phase = [t \in Tasks |-> "none"]
    /\ threads = "running"
    /\ blocked = {}
    /\ link = NoLink
    /\ mu = MuFree
    /\ lis = Listening
    /\ rpc = NoRPC
    /\ cm = NoSectors
    /\ cache = NoCache
    /\ reg = NoRegistry
    /\ up = NoUpload

NextListen ==
    \/ Tick
    \/ ListenAccept
    \/ ListenAcceptFails
    \/ ListenWake
    \/ ListenStopped
    \/ StopSignal
    \/ ListenerClose

\* The listener loop from its start to its return.
SpecListen == InitListen /\ [][NextListen]_vars

\* ------------------------------------- contract manager: sector locks
\* The threads that lock sectors and the sectors they lock.
SectorThreads == {"w1", "w2", "w3"}

SectorIDs == {"s1", "s2"}

\* The sectorLock objects: as many as can be referenced at one time, by
\* the map and by the local sl of every thread.
SectorLocks == 1..(Cardinality(SectorIDs) + Cardinality(SectorThreads))

\* A sectorLock that is not in use: nobody waits, sl.mu is free.
FreeLock == [waiting |-> 0, holder |-> "none"]

\* wal.cm.lockedSectors is empty and no thread is in managedLockSector or
\* holds a sector.  lockedSectors maps an id to its sectorLock (0: no
\* entry); pc is "idle", "wait" (before sl.mu.Lock()) or "holding" (after
\* managedLockSector returned); id and sl are the thread's id and sl.
Sectors ==
    [on |-> TRUE,
     lockedSectors |-> [i \in SectorIDs |-> 0],
     locks |-> [o \in SectorLocks |-> FreeLock],
     pc |-> [t \in SectorThreads |-> "idle"],
     id |-> [t \in SectorThreads |-> "none"],
     sl |-> [t \in SectorThreads |-> 0]]

\* The sectorLock objects that the map or a thread refers to.
Referenced(c) ==
    {c.lockedSectors[i] : i \in SectorIDs} \cup {c.sl[t] : t \in SectorThreads}

\* An object nobody refers to is garbage: it is as good as new.
Collected(c) ==
    [c EXCEPT !.locks = [o \in SectorLocks |->
                            IF o \in Referenced(c) THEN @[o] ELSE FreeLock]]

\* &sectorLock{...}: an object that is not in use.
NewLock(c) == CHOOSE o \in SectorLocks :
                /\ o \notin Referenced(c)
                /\ \A q \in SectorLocks : q \notin Referenced(c) => o <= q

\* managedLockSector under wal.mu: the entry of id gets one more waiting
\* thread, or is created with one.
LockEntered(c, t, i) ==
    IF c.lockedSectors[i] # 0
    THEN [c EXCEPT !.locks[c.lockedSectors[i]].waiting = @ + 1,
                   !.sl[t] = c.lockedSectors[i],
                   !.id[t] = i, !.pc[t] = "wait"]
    ELSE [c EXCEPT !.locks[NewLock(c)] = [waiting |-> 1, holder |-> "none"],
                   !.lockedSectors[i] = NewLock(c),
                   !.sl[t] = NewLock(c),
                   !.id[t] = i, !.pc[t] = "wait"]

\* Mutant: the entry is deleted whether threads are waiting or not.
UnlockedAlwaysDeleted(c, t) ==
    LET o == c.lockedSectors[c.id[t]] IN
    IF o = 0
    THEN [c EXCEPT !.pc[t] = "idle", !.id[t] = "none"]
    ELSE [c EXCEPT !.locks[o].waiting = @ - 1,
                   !.locks[o].holder = "none",
                   !.lockedSectors[c.id[t]] = 0,
                   !.pc[t] = "idle", !.id[t] = "none"]

\* managedUnlockSector, all of it under wal.mu: without an entry it logs
\* and returns; otherwise waiting--, sl.mu.Unlock(), and the entry is
\* deleted when nobody is left.
Unlocked(c, t) ==
    LET o == c.lockedSectors[c.id[t]] IN
    IF o = 0
    THEN [c EXCEPT !.pc[t] = "idle", !.id[t] = "none"]
    ELSE [c EXCEPT !.locks[o].waiting = @ - 1,
                   !.locks[o].holder = "none",
                   !.lockedSectors[c.id[t]] =
                        IF c.locks[o].waiting - 1 = 0 THEN 0 ELSE @,
                   !.pc[t] = "idle", !.id[t] = "none"]

\* What the sector locks leave alone.
notSectors ==
    <<peers, nodes, blocklist, myAddr, sess, log, pc, op, arg, p, conn,
      saveErr, ret, phase, threads, blocked, link, mu, lis, rpc, cache, reg,
      up>>

\* Thread t calls managedLockSector(i): the part under wal.mu.
LockSectorEnter(t, i) ==
    /\ cm.pc[t] = "idle"
    /\ cm' = Collected(LockEntered(cm, t, i))
    /\ UNCHANGED notSectors

\* managedLockSector: sl.mu.Lock() returns once sl.mu is free, and
\* managedLockSector returns.
LockSectorAcquire(t) ==
    /\ cm.pc[t] = "wait"
    /\ cm.locks[cm.sl[t]].holder = "none"
    /\ cm' = Collected([cm EXCEPT !.locks[cm.sl[t]].holder = t,
                                  !.sl[t] = 0,
                                  !.pc[t] = "holding"])
    /\ UNCHANGED notSectors

\* Thread t, which holds its sector, calls managedUnlockSector.
UnlockSector(t) ==
    /\ cm.pc[t] = "holding"
    /\ cm' = Collected(Unlocked(cm, t))
    /\ UNCHANGED notSectors

InitSectors ==
    /\ peers = EmptyMap
    /\ nodes = EmptyMap
    /\ blocklist = {}
    /\ myAddr = JoinHostPort("127.0.0.1", 1)
    /\ sess = EmptyMap
    /\ log = NoLog
    /\ pc = [t \in Tasks |-> "idle"]
    /\ op = [t \in Tasks |-> "none"]
    /\ arg = [t \in Tasks |-> myAddr]
    /\ p = [t \in Tasks |-> 0]
    /\ conn = [t \in Tasks |-> "none"]
    /\ saveErr = [t \in Tasks |-> nil]
    /\ ret = [t \in Tasks |-> nil]
    /\ phase = [t \in Tasks |-> "none"]
    /\ threads = "running"
    /\ blocked = {}
    /\ link = NoLink
    /\ mu = MuFree
    /\ lis = NoListener
    /\ rpc = NoRPC
    /\ cm = Sectors
    /\ cache = NoCache
    /\ reg = NoRegistry
    /\ up = NoUpload

NextSectors ==
    \E t \in SectorThreads :
        \/ \E i \in SectorIDs : LockSectorEnter(t, i)
        \/ LockSectorAcquire(t)
        \/ UnlockSector(t)

\* Threads that lock a sector, use it and unlock it.
SpecSectors == InitSectors /\ [][NextSectors]_vars

\* ------------------------------------------------ renter: registryCache
\* The map keys crypto.HashAll(pubKey, tweak) of the entries set and looked
\* up, and their revisions.
CacheKeys == {"k1", "k2", "k3"}

Revisions == {1, 2}

\* The cachedEntry objects: the list may hold maxEntries + 1 of them.
CachedEntries == 1..(MaxEntries + 1)

\* newRegistryCache(size): empty, maxEntries = size / cachedEntryEstimatedSize.
\* entryMap maps a key to its *cachedEntry, entryList is the slice of the
\* pointers, entries are the objects; last is the revision of the last Set
\* of each key (0: none) and call the last call with its result.
newRegistryCache(maxEntries) ==
    [on |-> TRUE,
     maxEntries |-> maxEntries,
     entryMap |-> EmptyMap,
     entryList |-> << >>,
     entries |-> [e \in CachedEntries |-> [key |-> "none", revision |-> 0]],
     last |-> [k \in CacheKeys |-> 0],
     call |-> [op |-> "none"]]

\* The objects the map or the list refers to.
Cached(c) ==
    {c.entryMap[k] : k \in DOMAIN c.entryMap}
        \cup {c.entryList[i] : i \in DOMAIN c.entryList}

\* An object nobody refers to is garbage.
Forgotten(c) ==
    [c EXCEPT !.entries = [e \in CachedEntries |->
                            IF e \in Cached(c) THEN @[e]
                            ELSE [key |-> "none", revision |-> 0]]]

\* &cachedEntry{...}: an object that is not in use.
NewEntry(c) == CHOOSE e \in CachedEntries :
                /\ e \notin Cached(c)
                /\ \A q \in CachedEntries : q \notin Cached(c) => e <= q

\* The slice after rc.entryList[idx] = rc.entryList[len-1] and
\* rc.entryList = rc.entryList[:len-1].
SwapRemove(list, idx) ==
    [i \in 1..(Len(list) - 1) |-> IF i = idx THEN list[Len(list)] ELSE list[i]]

\* Mutant: the entry leaves the list and stays in the map.
EvictedFromListOnly(c, idx) ==
    [c EXCEPT !.entryList = SwapRemove(@, idx)]

\* One round of the eviction loop with fastrand.Intn giving idx.
Evicted(c, idx) ==
    [c EXCEPT !.entryMap = MapDelete(@, c.entries[c.entryList[idx]].key),
              !.entryList = SwapRemove(@, idx)]

\* The caches the eviction loop can end in.
RECURSIVE WithinMaxEntries(_)
WithinMaxEntries(c) ==
    IF Len(c.entryList) > c.maxEntries
    THEN UNION {WithinMaxEntries(Evicted(c, idx)) : idx \in DOMAIN c.entryList}
    ELSE {c}

\* The caches Set(k, r) can leave: the revision of an existing entry is
\* updated through its pointer; a new entry is put into the map and
\* appended to the list, and entries are evicted at random.
SetResults(c, k, r) ==
    IF k \in DOMAIN c.entryMap
    THEN {[c EXCEPT !.entries[c.entryMap[k]].revision = r]}
    ELSE WithinMaxEntries(
            [c EXCEPT !.entries[NewEntry(c)] = [key |-> k, revision |-> r],
                      !.entryMap = MapPut(@, k, NewEntry(c)),
                      !.entryList = Append(@, NewEntry(c))])

\* What Get(k) returns.
GetResult(c, k) ==
    IF k \notin DOMAIN c.entryMap
    THEN [revision |-> 0, ok |-> FALSE]
    ELSE [revision |-> c.entries[c.entryMap[k]].revision, ok |-> TRUE]

\* What the cache leaves alone.
notCache ==
    <<peers, nodes, blocklist, myAddr, sess, log, pc, op, arg, p, conn,
      saveErr, ret, phase, threads, blocked, link, mu, lis, rpc, cm, reg, up>>

\* registryCache.Set, under rc.mu.
CacheSet(k, r) ==
    /\ \E c \in SetResults(cache, k, r) :
        cache' = [Forgotten(c) EXCEPT
                    !.last[k] = r,
                    !.call = [op |-> "Set", key |-> k, revision |-> r]]
    /\ UNCHANGED notCache

\* registryCache.Get, under rc.mu.
CacheGet(k) ==
    /\ cache' = [cache EXCEPT
                    !.call = [op |-> "Get", key |-> k,
                              revision |-> GetResult(cache, k).revision,
                              ok |-> GetResult(cache, k).ok]]
    /\ UNCHANGED notCache

InitCache ==
    /\ peers = EmptyMap
    /\ nodes = EmptyMap
    /\ blocklist = {}
    /\ myAddr = JoinHostPort("127.0.0.1", 1)
    /\ sess = EmptyMap
    /\ log = NoLog
    /\ pc = [t \in Tasks |-> "idle"]
    /\ op = [t \in Tasks |-> "none"]
    /\ arg = [t \in Tasks |-> myAddr]
    /\ p = [t \in Tasks |-> 0]
    /\ conn = [t \in Tasks |-> "none"]
    /\ saveErr = [t \in Tasks |-> nil]
    /\ ret = [t \in Tasks |-> nil]
    /\ phase = [t \in Tasks |-> "none"]
    /\ threads = "running"
    /\ blocked = {}
    /\ link = NoLink
    /\ mu = MuFree
    /\ lis = NoListener
    /\ rpc = NoRPC
    /\ cm = NoSectors
    /\ \E n \in 0..MaxEntries : cache = newRegistryCache(n)
    /\ reg = NoRegistry
    /\ up = NoUpload

NextCache ==
    \/ \E k \in CacheKeys, r \in Revisions : CacheSet(k, r)
    \/ \E k \in CacheKeys : CacheGet(k)

\* A registryCache of any size within the bound, set and read.
SpecCache == InitCache /\ [][NextCache]_vars

\* ------------------------------------------------------- host: Registry
errTooMuchData == <<"registered data is too large">>

errInvalidSignature ==
    <<"Update: failed to verify signature", "provided signature is invalid">>

\* Mutant: the refusal of a revision carries the text of another error.
errInvalidRevNumOther == <<"registered data is too large">>

errInvalidRevNum == <<"provided revision number is invalid">>

errSaveEntry == <<"failed to save new entry to disk">>

\* What saveEntry returned for the entries Prune could not purge.
errPrune == <<"saveEntry failed">>

\* The keys (pubKey and tweak), the revisions, the expiry heights and the
\* data of the values registered; "big" is longer than RegistryDataSize.
RegistryKeys == {"k1", "k2"}

RegistryRevisions == 0..2

Heights == 1..3

RegistryData == {"a", "big"}

\* The slots of the file: slot 0 is the metadata page.
Slots == 0..Cardinality(RegistryKeys)

\* New(path, wal) on a new file: no entry, the first page in use.
NewRegistry ==
    [on |-> TRUE, entries |-> EmptyMap, staticUsage |-> {0},
     call |-> [op |-> "none"]]

\* staticUsage.SetFirst(): the first slot that is not in use.
SetFirst(usage) ==
    CHOOSE i \in Slots : i \notin usage /\ \A j \in Slots \ usage : i <= j

\* What Update does to the registry and what it returns: updated is its
\* bool, err its error.  saved is whether saveEntry succeeds.
Updated(r, k, rev, expiry, data, verified, saved) ==
    LET v == [expiry |-> expiry, staticIndex |-> -1, data |-> data,
              revision |-> rev]
        exists == k \in DOMAIN r.entries
    IN  IF data = "big"
        THEN [reg |-> r, updated |-> FALSE, err |-> errTooMuchData]
        ELSE IF ~verified
        THEN [reg |-> r, updated |-> FALSE, err |-> errInvalidSignature]
        ELSE IF exists /\ v.revision > r.entries[k].revision
        THEN [reg |-> [r EXCEPT !.entries[k] =
                        [v EXCEPT !.staticIndex = r.entries[k].staticIndex]],
              updated |-> TRUE, err |-> nil]
        ELSE IF exists
        THEN [reg |-> r, updated |-> FALSE, err |-> errInvalidRevNum]
        ELSE IF ~saved
        THEN [reg |-> r, updated |-> FALSE, err |-> errSaveEntry]
        ELSE [reg |-> [r EXCEPT
                        !.entries = MapPut(@, k,
                            [v EXCEPT !.staticIndex = SetFirst(r.staticUsage)]),
                        !.staticUsage = @ \cup {SetFirst(r.staticUsage)}],
              updated |-> FALSE, err |-> nil]

\* The entries Prune(expiry) does not skip as "not expired".
Expired(r, expiry) ==
    {k \in DOMAIN r.entries : ~(r.entries[k].expiry > expiry)}

\* The registry after Prune removed the entries in gone and freed their
\* slots.
Pruned(r, gone) ==
    [r EXCEPT !.entries = [k \in DOMAIN @ \ gone |-> @[k]],
              !.staticUsage = @ \ {r.entries[k].staticIndex : k \in gone}]

\* What the registry leaves alone.
notRegistry ==
    <<peers, nodes, blocklist, myAddr, sess, log, pc, op, arg, p, conn,
      saveErr, ret, phase, threads, blocked, link, mu, lis, rpc, cm, cache,
      up>>

\* Registry.Update, under r.mu.
RegistryUpdate(k, rev, expiry, data) ==
    /\ \E verified \in BOOLEAN, saved \in BOOLEAN :
        LET u == Updated(reg, k, rev, expiry, data, verified, saved) IN
        reg' = [u.reg EXCEPT
                    !.call = [op |-> "Update", key |-> k, revision |-> rev,
                              expiry |-> expiry, data |-> data,
                              verified |-> verified,
                              updated |-> u.updated, err |-> u.err]]
    /\ UNCHANGED notRegistry

\* Registry.Prune, under r.mu: saveEntry may fail for any of the entries,
\* which then stay.
RegistryPrune(expiry) ==
    /\ \E failed \in SUBSET Expired(reg, expiry) :
        reg' = [Pruned(reg, Expired(reg, expiry) \ failed) EXCEPT
                    !.call = [op |-> "Prune", expiry |-> expiry,
                              failed |-> failed,
                              err |-> IF failed = {} THEN nil ELSE errPrune]]
    /\ UNCHANGED notRegistry

InitRegistry ==
    /\ peers = EmptyMap
    /\ nodes = EmptyMap
    /\ blocklist = {}
    /\ myAddr = JoinHostPort("127.0.0.1", 1)
    /\ sess = EmptyMap
    /\ log = NoLog
    /\ pc = [t \in Tasks |-> "idle"]
    /\ op = [t \in Tasks |-> "none"]
    /\ arg = [t \in Tasks |-> myAddr]
    /\ p = [t \in Tasks |-> 0]
    /\ conn = [t \in Tasks |-> "none"]
    /\ saveErr = [t \in Tasks |-> nil]
    /\ ret = [t \in Tasks |-> nil]
    /\ phase = [t \in Tasks |-> "none"]
    /\ threads = "running"
    /\ blocked = {}
    /\ link = NoLink
    /\ mu = MuFree
    /\ lis = NoListener
    /\ rpc = NoRPC
    /\ cm = NoSectors
    /\ cache = NoCache
    /\ reg = NewRegistry
    /\ up = NoUpload

NextRegistry ==
    \/ \E k \in RegistryKeys, rev \in RegistryRevisions, expiry \in Heights,
          data \in RegistryData : RegistryUpdate(k, rev, expiry, data)
    \/ \E expiry \in Heights : RegistryPrune(expiry)

\* A new registry, updated and pruned.
SpecRegistry == InitRegistry /\ [][NextRegistry]_vars

\* ================================================================= claims
\* A step in which task t runs acceptPeer.
AdmitStep(t) == pc[t] = "acc_admit" /\ pc'[t] = "acc_ping"

\* The peers of the table whose session the step closes.
ClosedBy == {a \in DOMAIN peers :
                sess[peers[a].id].open /\ ~sess'[peers[a].id].open}

\* The peers of the table that are no longer in it after the step.
RemovedBy == {a \in DOMAIN peers :
                \A b \in DOMAIN peers' : peers'[b].id # peers[a].id}

\* The peers acceptPeer may choose its victim among.
Kickable == {a \in DOMAIN peers : peers[a].Inbound /\ ~peers[a].Local}

\* C2: in every acceptPeer call the peer whose session is closed and whose
\* entry is deleted is inbound and not local; an outbound or a local peer is
\* never the kick victim.
C2_VictimInboundNotLocal ==
    [][\A t \in Tasks : AdmitStep(t) =>
        /\ \A a \in ClosedBy : peers[a].Inbound /\ ~peers[a].Local
        /\ \A a \in log'.kick :
            /\ a \in ClosedBy \cap RemovedBy
            /\ peers[a].Inbound /\ ~peers[a].Local]_vars

\* C2 witness: acceptPeer kicked a peer while an outbound peer and a local
\* inbound peer stayed in the table.
C2_Witness ==
    /\ log.called /\ log.kick # {}
    /\ \E a \in DOMAIN peers : ~peers[a].Inbound
    /\ \E a \in DOMAIN peers : peers[a].Inbound /\ peers[a].Local
    /\ \E i \in DOMAIN sess : ~sess[i].open

\* C3: with exactly fullyConnectedThreshold peers in the table, acceptPeer
\* kicks exactly one peer when an inbound non-local peer exists and none
\* when every peer is outbound or local; the new peer is in the table
\* afterwards in both cases.
C3_ExactlyOneKickAtThreshold ==
    [][\A t \in Tasks :
        AdmitStep(t) /\ Cardinality(DOMAIN peers) = fullyConnectedThreshold =>
            /\ Kickable # {} => Cardinality(ClosedBy) = 1 /\ ClosedBy \subseteq RemovedBy
            /\ Kickable = {} => ClosedBy = {} /\ RemovedBy \subseteq {arg[t]}
            /\ log'.kick = ClosedBy
            /\ arg[t] \in DOMAIN peers'
            /\ peers'[arg[t]].id = NextId
            /\ sess'[NextId].open]_vars

\* C3 witness: the table held exactly fullyConnectedThreshold peers, none of
\* them could be kicked, and the new peer was added beyond the threshold.
C3_Witness ==
    /\ log.called /\ log.n = fullyConnectedThreshold /\ log.kick = {}
    /\ log.new \in DOMAIN peers
    /\ Cardinality(DOMAIN peers) = fullyConnectedThreshold + 1

\* C4: when acceptPeer has to kick and an inbound non-local peer of the new
\* peer's host is in the table, the victim is one of the peers of that
\* host; a peer of another host is kicked only when there is none.
C4_SameHostPreferred ==
    [][\A t \in Tasks : AdmitStep(t) =>
        LET sameHost == {a \in Kickable : Host(a) = Host(arg[t])}
        IN  /\ (Cardinality(DOMAIN peers) >= fullyConnectedThreshold
                    /\ sameHost # {})
                => ClosedBy # {} /\ ClosedBy \subseteq sameHost
            /\ \A a \in ClosedBy : Host(a) # Host(arg[t]) => sameHost = {}]_vars

\* C4 witness: a peer of the new peer's host was kicked although an inbound
\* non-local peer of another host was in the table, and is still in it.
C4_Witness ==
    /\ log.called /\ log.kick # {}
    /\ \A a \in log.kick : Host(a) = Host(log.new)
    /\ \E a \in DOMAIN peers :
        peers[a].Inbound /\ ~peers[a].Local /\ Host(a) # Host(log.new)

\* ------------------------------------------------ steps of the API calls
\* The locals of task t.
Locals(t) == <<pc[t], op[t], arg[t], p[t], conn[t], saveErr[t], ret[t]>>

\* A step in which the idle task t calls operation o.
CallStep(t, o) == pc[t] = "idle" /\ op'[t] = o /\ Locals(t)' # Locals(t)

\* A step in which task t leaves position at.
StepFrom(t, at) == pc[t] = at /\ pc'[t] # at

\* The error the call of t returns when Connect returns err.
Returned(t, err) ==
    IF op[t] = "ConnectManual" THEN ComposeErrors(saveErr[t], err) ELSE err

\* C1: of two concurrent Connect calls to one address at most one inserts a
\* peer and returns nil: a Connect that reaches its insert when a concurrent
\* Connect has put its outbound peer for the address in the table since the
\* existence check returns errPeerExists and inserts nothing.
C1_ConcurrentConnectOneWins ==
    [][\A t \in Tasks :
        (/\ StepFrom(t, "add")
         /\ arg[t] \in DOMAIN peers
         /\ ~peers[arg[t]].Inbound)
        => /\ ret'[t] = Returned(t, errPeerExists)
           /\ peers' = peers
           /\ sess' = sess]_vars

\* C5: every peer in the peer table has an open session.
C5_TablePeersOpen == \A a \in DOMAIN peers : sess[peers[a].id].open

\* C6: every open session belongs to a peer that is in the peer table.
C6_OpenSessionsInTable ==
    \A i \in DOMAIN sess :
        sess[i].open => \E a \in DOMAIN peers : peers[a].id = i

\* C7: when Connect(addr) returns nil the peer table has addr as an outbound
\* peer and the node table has addr with WasOutboundPeer set.
C7_ConnectRegistersOutbound ==
    [][\A t \in Tasks :
        (StepFrom(t, "add") /\ ret'[t] = Returned(t, nil)) =>
            /\ pc'[t] = "idle"
            /\ arg[t] \in DOMAIN peers'
            /\ ~peers'[arg[t]].Inbound
            /\ peers'[arg[t]].NetAddress = arg[t]
            /\ sess'[peers'[arg[t]].id].open
            /\ arg[t] \in DOMAIN nodes'
            /\ nodes'[arg[t]].WasOutboundPeer]_vars

\* C7 witness: a Connect has returned nil and its peer and node are there.
C7_Witness ==
    \E t \in Tasks :
        /\ op[t] = "Connect" /\ pc[t] = "idle" /\ ret[t] = nil
        /\ conn[t] = "open"
        /\ arg[t] \in DOMAIN peers /\ ~peers[arg[t]].Inbound
        /\ arg[t] \in DOMAIN nodes /\ nodes[arg[t]].WasOutboundPeer

\* The entries of map m other than the one of key k are those of map n.
SameExcept(m, n, k) ==
    /\ DOMAIN n = DOMAIN m \ {k}
    /\ \A x \in DOMAIN n : n[x] = m[x]

\* C8: Disconnect(addr) on a connected peer closes the session of the peer
\* it found, removes addr from the peer table and the node table, and
\* leaves every other peer, every other node and the blocklist unchanged.
C8_DisconnectFrame ==
    [][\A t \in Tasks :
        /\ ((CallStep(t, "Disconnect") \/ CallStep(t, "DisconnectManual"))
                /\ arg'[t] \in DOMAIN peers)
            => /\ pc'[t] = "close"
               /\ p'[t] = peers[arg'[t]].id
               /\ UNCHANGED gateway
        /\ StepFrom(t, "close")
            => /\ ~sess'[p[t]].open
               /\ SameExcept(sess, [i \in DOMAIN sess' \ {p[t]} |-> sess'[i]],
                             p[t])
               /\ UNCHANGED <<peers, nodes, blocklist, myAddr>>
        /\ StepFrom(t, "delete")
            => /\ ~sess'[p[t]].open
               /\ SameExcept(peers, peers', arg[t])
               /\ SameExcept(nodes, nodes', arg[t])
               /\ UNCHANGED <<blocklist, myAddr, sess>>
               /\ op[t] = "Disconnect" => pc'[t] = "idle" /\ ret'[t] = nil]_vars

\* C8 witness: a Disconnect has returned nil, its address is in neither
\* table, and another peer and another node are still there.
C8_Witness ==
    \E t \in Tasks :
        /\ op[t] = "Disconnect" /\ pc[t] = "idle" /\ ret[t] = nil
        /\ arg[t] \notin DOMAIN peers /\ arg[t] \notin DOMAIN nodes
        /\ DOMAIN peers # {} /\ DOMAIN nodes # {}
        /\ \E i \in DOMAIN sess : ~sess[i].open

\* C9: Disconnect(addr) for an address that is not in the peer table
\* returns "not connected to that node" and changes nothing.
C9_DisconnectUnknown ==
    [][\A t \in Tasks :
        ((CallStep(t, "Disconnect") \/ CallStep(t, "DisconnectManual"))
            /\ arg'[t] \notin DOMAIN peers)
        => /\ ret'[t] = <<"not connected to that node">>
           /\ pc'[t] = "idle"
           /\ UNCHANGED gateway]_vars

\* C9 witness: a Disconnect has failed on an address that is not a peer
\* while the peer table and the node table held other entries.
C9_Witness ==
    \E t \in Tasks :
        /\ op[t] = "Disconnect" /\ pc[t] = "idle"
        /\ ret[t] = <<"not connected to that node">>
        /\ arg[t] \notin DOMAIN peers
        /\ DOMAIN peers # {} /\ DOMAIN nodes # {} /\ blocklist # {}

\* The input address is refused before the existence check.
Refused(addr) ==
    \/ addr = myAddr
    \/ ~IsStdValid(addr)
    \/ Host(addr) \notin IPHosts
    \/ Host(addr) \in blocklist

\* C10: Connect(addr) returns an error, without dialing and without changing
\* the peer table, the node table or the blocklist, when addr is the
\* gateway's own address, is not IsStdValid, has a host that is not an IP,
\* has a blocklisted host, or is in the peer table (errPeerExists).
C10_ConnectRefuses ==
    [][\A t \in Tasks :
        /\ (CallStep(t, "Connect") /\ Refused(arg'[t]))
            => /\ ret'[t] # nil /\ ret'[t] # errPeerExists
               /\ pc'[t] = "idle"
               /\ conn'[t] = "none"
               /\ UNCHANGED gateway
        /\ (StepFrom(t, "cm_connect") /\ Refused(arg[t]))
            => /\ ret'[t] # nil
               /\ pc'[t] = "idle"
               /\ conn'[t] = "none"
               /\ UNCHANGED gateway
        /\ (StepFrom(t, "exists") /\ arg[t] \in DOMAIN peers)
            => /\ ret'[t] = Returned(t, errPeerExists)
               /\ pc'[t] = "idle"
               /\ conn'[t] = "none"
               /\ UNCHANGED gateway]_vars

\* C10 witness: a Connect to a blocklisted host has returned the blocklist
\* error without a connection, with a node in the node table.
C10_Witness ==
    \E t \in Tasks :
        /\ op[t] = "Connect" /\ pc[t] = "idle"
        /\ ret[t] = <<"can't connect to blocklisted address">>
        /\ Host(arg[t]) \in blocklist
        /\ conn[t] = "none"
        /\ DOMAIN nodes # {}

\* ------------------------------------------------------------ blocklist
\* The checks of managedConnect that come before the blocklist lookup pass.
Dialable(addr) == addr # myAddr /\ IsStdValid(addr) /\ Host(addr) \in IPHosts

\* C11 as stated: after DisconnectManual(addr) has succeeded and until
\* ConnectManual(addr) is called, every Connect(addr) fails with the
\* blocklist error and changes nothing.
C11_BlockedUntilConnectManualOfAddr ==
    [][\A t \in Tasks :
        (CallStep(t, "Connect") /\ arg'[t] \in blocked)
        => /\ ret'[t] = <<"can't connect to blocklisted address">>
           /\ pc'[t] = "idle"
           /\ UNCHANGED gateway]_vars

\* C11 amended: a successful DisconnectManual(addr) leaves addr.Host() in
\* the blocklist; a host leaves the blocklist only in a call of
\* ConnectManual with an address of that host (addr or another one); while
\* the host is in the blocklist every Connect to an address of the host
\* fails without a dial and adds no peer, with the blocklist error when the
\* address passes the checks before it; ConnectManual removes the host
\* from the blocklist and then connects.
C11_BlockedUntilConnectManualOfHost ==
    [][/\ \A t \in Tasks :
            /\ StepFrom(t, "dm_block") => Host(arg[t]) \in blocklist'
            /\ (CallStep(t, "Connect") /\ Host(arg'[t]) \in blocklist)
                => /\ ret'[t] # nil
                   /\ Dialable(arg'[t])
                        => ret'[t] = <<"can't connect to blocklisted address">>
                   /\ pc'[t] = "idle"
                   /\ conn'[t] = "none"
                   /\ UNCHANGED gateway
            /\ CallStep(t, "ConnectManual")
                => /\ Host(arg'[t]) \notin blocklist'
                   /\ pc'[t] = "cm_connect"
                   /\ UNCHANGED <<peers, nodes, sess>>
            /\ (StepFrom(t, "cm_connect") /\ Dialable(arg[t])
                    /\ Host(arg[t]) \notin blocklist)
                => pc'[t] = "exists"
       /\ \A h \in blocklist \ blocklist' :
            \E t \in Tasks :
                CallStep(t, "ConnectManual") /\ Host(arg'[t]) = h]_vars

\* C11 witness: DisconnectManual has succeeded on an address and a later
\* Connect to it has returned the blocklist error.
C11_Witness ==
    \E t \in Tasks :
        /\ op[t] = "Connect" /\ pc[t] = "idle"
        /\ arg[t] \in blocked
        /\ Host(arg[t]) \in blocklist
        /\ ret[t] = <<"can't connect to blocklisted address">>
        /\ arg[t] \notin DOMAIN peers

\* C12: an inbound connection whose socket host is in the blocklist is
\* closed before any handshake byte is read or written on it, and the task
\* ends without reaching acceptPeer: nothing in the gateway changes.
C12_BlocklistedInboundClosed ==
    [][\A t \in Tasks :
        (CallStep(t, "Accept") /\ Host(arg'[t]) \in blocklist)
        => /\ conn'[t] = "closed"
           /\ phase'[t] = "none"
           /\ pc'[t] = "idle"
           /\ UNCHANGED gateway]_vars

\* C12 witness: a connection from a blocklisted host has been closed with
\* no handshake step on it.
C12_Witness ==
    \E t \in Tasks :
        /\ op[t] = "Accept" /\ pc[t] = "idle"
        /\ Host(arg[t]) \in blocklist
        /\ conn[t] = "closed" /\ phase[t] = "none"
        /\ \A a \in DOMAIN peers : Host(a) # Host(arg[t])

\* Task t takes a step inside a call of operation o.
StepIn(t, o) == op[t] = o /\ pc[t] # "idle" /\ pc'[t] # pc[t]

C14_DisconnectManualBlocks ==
    [][\A t \in Tasks :
        /\ (CallStep(t, "DisconnectManual") /\ arg'[t] \in DOMAIN peers)
            => pc'[t] = "close"
        /\ (StepFrom(t, "close") /\ op[t] = "DisconnectManual")
            => pc'[t] = "delete"
        /\ (StepFrom(t, "delete") /\ op[t] = "DisconnectManual")
            => /\ arg[t] \notin DOMAIN peers'
               /\ pc'[t] = "dm_block"
        /\ StepFrom(t, "dm_block")
            => /\ op[t] = "DisconnectManual"
               /\ Host(arg[t]) \in blocklist'
               /\ blocklist' = blocklist \cup {Host(arg[t])}
               /\ pc'[t] = "idle"
               /\ ret'[t] \in {nil, <<"save failed">>}
               /\ UNCHANGED <<peers, nodes, sess>>]_vars

\* C14 witness: a DisconnectManual has returned the error of saveSync; its
\* peer is gone and its host is in the blocklist.
C14_Witness ==
    \E t \in Tasks :
        /\ op[t] = "DisconnectManual" /\ pc[t] = "idle"
        /\ ret[t] = <<"save failed">>
        /\ arg[t] \notin DOMAIN peers
        /\ Host(arg[t]) \in blocklist
        /\ \E i \in DOMAIN sess : ~sess[i].open

\* C15: a remote that answers the version that was sent with the string
\* "reject" makes connectVersionHandshake fail with errPeerRejectedConn:
\* the step of A that reads "reject" as the remote version ends the call
\* with "peer rejected connection", closes the connection and leaves A's
\* peer table (and node table) as it was.
C15_RejectedByRemote ==
    [][(/\ link.a = "version"
        /\ link'.a # "version"
        /\ Len(link.ba) > 0
        /\ Head(link.ba) = "reject")
       => /\ link'.a = "failed"
          /\ link'.errA = <<"peer rejected connection">>
          /\ link'.connA = "closed"
          /\ link'.peersA = link.peersA
          /\ link'.nodesA = link.nodesA
          /\ link'.wroteA = link.wroteA]_vars

\* C15 witness: B rejected the version of A and A, having read the
\* rejection, returned errPeerRejectedConn with the connection closed and
\* no peer.
C15_Witness ==
    /\ link.a = "failed"
    /\ link.wroteB = <<"reject">>
    /\ link.ba = << >>
    /\ link.errA = <<"peer rejected connection">>
    /\ link.connA = "closed"
    /\ DOMAIN link.peersA = {}

\* C16: acceptVersionHandshake answers the version it read with "reject",
\* and with nothing else, exactly when that version is invalid (not a
\* version string) or insufficient (below 1.3.1), and then returns the
\* matching error; otherwise it answers with its own version and returns
\* the version it read.  A side that rejected writes nothing afterwards.
C16_RejectExactlyWhenUnacceptable ==
    [][/\ (/\ link.b = "version"
           /\ link'.b # "version"
           /\ Len(link.ab) > 0)
          => LET v == Head(link.ab) IN
             IF v \notin {"1.5.0", "1.3.1", "1.3.0"}
             THEN /\ link'.wroteB = <<"reject">>
                  /\ link'.b = "failed"
                  /\ link'.errB = <<"invalid version: ", v>>
             ELSE IF v = "1.3.0"
             THEN /\ link'.wroteB = <<"reject">>
                  /\ link'.b = "failed"
                  /\ link'.errB = <<"unacceptable version: ", v>>
             ELSE /\ link'.wroteB = <<link.versionB>>
                  /\ link.versionB # "reject"
                  /\ link'.b = "header"
                  /\ link'.remoteVersionB = v
                  /\ link'.errB = nil
       /\ (link.b = "failed" /\ link.wroteB = <<"reject">>)
          => link'.wroteB = link.wroteB]_vars

\* C16 witness: B has rejected an insufficient version, having written the
\* rejection only, while A has not read it yet.
C16_Witness ==
    /\ link.b = "failed"
    /\ link.versionA = "1.3.0"
    /\ link.wroteB = <<"reject">>
    /\ link.errB = <<"unacceptable version: ", "1.3.0">>
    /\ link.a = "version"

\* C17: when the version handshake or the header handshake fails, on the
\* dialing side (managedConnect) or on the accepting side
\* (threadedAcceptConn), the task ends there with the connection closed,
\* the dialing call returns the error, and the peer table, the node table,
\* the sessions and the blocklist are as they were; a peer enters the peer
\* table only from a task whose handshake was completed on an open
\* connection.
C17_HandshakeFailureLeavesNoTrace ==
    [][/\ \A t \in Tasks :
            /\ (StepFrom(t, "exists") /\ phase'[t] \in {"version", "header"})
                 => /\ pc'[t] = "idle"
                    /\ conn'[t] = "closed"
                    /\ ret'[t] # nil
                    /\ UNCHANGED gateway
            /\ (CallStep(t, "Accept") /\ phase'[t] \in {"version", "header"})
                 => /\ pc'[t] = "idle"
                    /\ conn'[t] = "closed"
                    /\ UNCHANGED gateway
            /\ (StepFrom(t, "exists") /\ phase'[t] = "done")
                 => (pc'[t] = "add" /\ conn'[t] = "open")
            /\ (CallStep(t, "Accept") /\ phase'[t] = "done")
                 => (pc'[t] = "acc_admit" /\ conn'[t] = "open")
       /\ \A a \in DOMAIN peers' \ DOMAIN peers :
            \E t \in Tasks : /\ pc[t] \in {"add", "acc_admit"}
                             /\ pc'[t] # pc[t]
                             /\ phase[t] = "done"
                             /\ conn[t] = "open"
                             /\ arg[t] = a]_vars

\* C17 witness: a Connect whose header was refused by the remote has
\* returned the error with its connection closed while the gateway holds
\* another peer and the address dialed is in neither table.
C17_Witness ==
    \E t \in Tasks :
        /\ op[t] = "Connect"
        /\ pc[t] = "idle"
        /\ phase[t] = "header"
        /\ conn[t] = "closed"
        /\ ret[t] = <<"peer rejected our header: ", "peer has different genesis ID">>
        /\ arg[t] \notin DOMAIN peers
        /\ arg[t] \notin DOMAIN nodes
        /\ DOMAIN peers # {}

\* C18: over a connection that delivers every message, once both sides
\* have left the handshake A has inserted B as an outbound peer exactly
\* when B has inserted A as an inbound peer, and neither has inserted the
\* other when a side rejected the other's version or the two session
\* headers differ in the genesis ID.  B never inserts before A does.
C18_BothInsertOrNeither ==
    LET insertedA == link.addr \in DOMAIN link.peersA
        insertedB == link.remoteAddrB \in DOMAIN link.peersB
        versionsOK == /\ link.versionA \in {"1.5.0", "1.3.1"}
                      /\ link.versionB \in {"1.5.0", "1.3.1"}
        sameChain == link.headerA.GenesisID = link.headerB.GenesisID
        headersOK == /\ sameChain
                     /\ link.headerA.UniqueID # link.headerB.UniqueID
                     /\ Port(link.headerA.NetAddress) \in ValidPorts
                     /\ Port(link.headerB.NetAddress) \in ValidPorts
        finished == link.a \in {"done", "failed"} /\ link.b \in {"done", "failed"}
    IN  link.a # "none" =>
        /\ finished => (insertedA <=> insertedB)
        /\ (finished /\ versionsOK /\ headersOK) => (insertedA /\ insertedB)
        /\ insertedB => insertedA
        /\ insertedA => /\ ~link.peersA[link.addr].Inbound
                        /\ link.a = "done"
                        /\ DOMAIN link.peersA = {link.addr}
        /\ insertedB => /\ link.peersB[link.remoteAddrB].Inbound
                        /\ link.b = "done"
                        /\ Host(link.remoteAddrB) = Host(link.sock)
                        /\ DOMAIN link.peersB = {link.remoteAddrB}
        /\ ~insertedA => DOMAIN link.peersA = {}
        /\ ~insertedB => DOMAIN link.peersB = {}
        /\ (~versionsOK \/ ~sameChain) => (~insertedA /\ ~insertedB)

\* C18 witness: both sides have finished and each has the other in its
\* peer table, A as outbound and B as inbound.
C18_Witness ==
    /\ link.a = "done"
    /\ link.b = "done"
    /\ link.addr \in DOMAIN link.peersA
    /\ ~link.peersA[link.addr].Inbound
    /\ link.remoteAddrB \in DOMAIN link.peersB
    /\ link.peersB[link.remoteAddrB].Inbound

\* C19: after Stop() has returned no task the gateway spawned for an
\* inbound connection is still at work, and neither the peer table nor the
\* node table changes.
C19_NoTaskAfterStop ==
    [][threads = "stopped"
       => /\ \A t \in Tasks : op[t] = "Accept" => pc[t] = "idle"
          /\ UNCHANGED <<peers, nodes>>]_vars

\* C20: a call of Connect, Disconnect, ConnectManual or DisconnectManual
\* that starts once Add() refuses leaves the peer table, the node table and
\* the blocklist as they are and returns an error, in its first step or in
\* the next one, and an inbound connection accepted then is closed before
\* any handshake step.
C20_RefusedAfterStop ==
    [][\A t \in Tasks :
        /\ (/\ threads # "running"
            /\ \E o \in {"Connect", "Disconnect", "ConnectManual",
                          "DisconnectManual"} : CallStep(t, o))
           => /\ UNCHANGED <<peers, nodes, blocklist>>
              /\ pc'[t] \in {"idle", "cm_connect"}
              /\ pc'[t] = "idle" => ret'[t] # nil
        /\ (threads # "running" /\ StepFrom(t, "cm_connect"))
           => /\ UNCHANGED <<peers, nodes, blocklist>>
              /\ pc'[t] = "idle"
              /\ ret'[t] # nil
        /\ (threads # "running" /\ CallStep(t, "Accept"))
           => /\ UNCHANGED <<peers, nodes, blocklist>>
              /\ pc'[t] = "idle"
              /\ conn'[t] = "closed"
              /\ phase'[t] = "none"]_vars

\* C21: Disconnect(addr) that succeeds takes addr out of the peer table and
\* leaves the blocklist as it is, so that a later Connect(addr) passes the
\* checks it passed before: a Connect of a dialable address whose host is
\* not blocklisted reaches the existence check, one that finds no peer for
\* the address and a compatible remote reaches the insert, and the insert
\* puts addr into the peer table as an outbound peer and returns nil.
C21_ReconnectAfterDisconnect ==
    [][\A t \in Tasks :
        /\ (StepFrom(t, "delete") /\ op[t] = "Disconnect")
           => /\ arg[t] \notin DOMAIN peers'
              /\ blocklist' = blocklist
              /\ pc'[t] = "idle"
              /\ ret'[t] = nil
        /\ (/\ CallStep(t, "Connect")
            /\ Dialable(arg'[t])
            /\ Host(arg'[t]) \notin blocklist)
           => pc'[t] = "exists"
        /\ (/\ StepFrom(t, "exists")
            /\ arg[t] \notin DOMAIN peers
            /\ phase'[t] = "done")
           => pc'[t] = "add"
        /\ (/\ StepFrom(t, "add")
            /\ op[t] = "Connect"
            /\ arg[t] \notin DOMAIN peers)
           => /\ ret'[t] = nil
              /\ pc'[t] = "idle"
              /\ arg[t] \in DOMAIN peers'
              /\ ~peers'[arg[t]].Inbound]_vars

\* C21 witness: Disconnect(addr) has returned nil, the session of the
\* peer is closed, and addr is dialable, in neither table and not
\* blocklisted: Connect(addr) can be called and passes every check.
C21_Witness ==
    \E t \in Tasks :
        /\ op[t] = "Disconnect"
        /\ pc[t] = "idle"
        /\ ret[t] = nil
        /\ Dialable(arg[t])
        /\ arg[t] \notin DOMAIN peers
        /\ arg[t] \notin DOMAIN nodes
        /\ Host(arg[t]) \notin blocklist
        /\ \E id \in DOMAIN sess : ~sess[id].open
        /\ CanCreate

\* C22 as stated: the peer table never holds more than fullyConnectedThreshold
\* entries, inbound and outbound peers counted together: no step takes a
\* table within the threshold to one above it.
C22_TableWithinThreshold ==
    [][Cardinality(DOMAIN peers) <= fullyConnectedThreshold
       => Cardinality(DOMAIN peers') <= fullyConnectedThreshold]_vars

\* C22 amended: the threshold bounds the peers that can be kicked, the
\* inbound peers that are not local: an admission never takes their number
\* above fullyConnectedThreshold, and it takes a table that is at or above
\* the threshold to a larger one only when the table holds no such peer
\* (every peer in it is outbound or local).
C22_KickablePeersWithinThreshold ==
    [][(/\ Cardinality(KickCandidates(peers)) <= fullyConnectedThreshold
        /\ \E t \in Tasks : AdmitStep(t))
       => /\ Cardinality(KickCandidates(peers')) <= fullyConnectedThreshold
          /\ (/\ Cardinality(DOMAIN peers) >= fullyConnectedThreshold
              /\ Cardinality(DOMAIN peers') > Cardinality(DOMAIN peers))
             => KickCandidates(peers) = {}]_vars

\* C22 witness: acceptPeer has kicked a peer of a table above the
\* threshold, which still holds more than fullyConnectedThreshold peers,
\* fullyConnectedThreshold of them inbound and not local.
C22_Witness ==
    /\ log.called
    /\ log.kick # {}
    /\ log.n > fullyConnectedThreshold
    /\ Cardinality(DOMAIN peers) > fullyConnectedThreshold
    /\ Cardinality(KickCandidates(peers)) = fullyConnectedThreshold

\* C23: when saveSyncNodes fails in a Connect(addr) that has completed the
\* handshake, Connect returns nil all the same, and addr is in the peer
\* table as an outbound peer and in the node table as a former outbound
\* peer.
C23_SaveNodesErrorNotFatal ==
    [][\A t \in Tasks :
        (/\ StepFrom(t, "add")
         /\ op[t] = "Connect"
         /\ saveErr'[t] = <<"save failed">>)
        => /\ pc'[t] = "idle"
           /\ ret'[t] = nil
           /\ arg[t] \in DOMAIN peers'
           /\ peers'[arg[t]].NetAddress = arg[t]
           /\ ~peers'[arg[t]].Inbound
           /\ arg[t] \in DOMAIN nodes'
           /\ nodes'[arg[t]].WasOutboundPeer]_vars

\* C23 witness: a Connect whose saveSyncNodes failed has returned nil and
\* its peer and its node are in the tables.
C23_Witness ==
    \E t \in Tasks :
        /\ op[t] = "Connect"
        /\ pc[t] = "idle"
        /\ saveErr[t] = <<"save failed">>
        /\ ret[t] = nil
        /\ arg[t] \in DOMAIN peers
        /\ arg[t] \in DOMAIN nodes

BlockedA ==
    /\ link.a \in {"version", "response", "header"}
    /\ ~Readable(link.ba, link.connB)

\* Side B waits in a read that cannot return yet.
BlockedB ==
    /\ link.b \in {"version", "header", "response"}
    /\ ~Readable(link.ab, link.connA)

\* Both sides have left the handshake.
Finished == link.a \in {"done", "failed"} /\ link.b \in {"done", "failed"}

\* C25: over a connection that delivers every object, the two sides of the
\* handshake are never both waiting in a read, a side never waits for an
\* object of a side that has left the handshake with the connection open,
\* nothing written is left unread once both sides have succeeded, and the
\* handshake ends, in success or in failure, on both sides.
C25_HandshakeEnds ==
    /\ [](~(BlockedA /\ BlockedB))
    /\ [](BlockedA => link.b \notin {"done", "failed"})
    /\ [](BlockedB => link.a \notin {"done", "failed"})
    /\ []((link.a = "done" /\ link.b = "done")
            => (link.ab = << >> /\ link.ba = << >>))
    /\ <>Finished

\* C25 witness: both sides have succeeded, each has written its version,
\* its header and its response, and every object has been read.
C25_Witness ==
    /\ link.a = "done"
    /\ link.b = "done"
    /\ Len(link.wroteA) = 3
    /\ Len(link.wroteB) = 3
    /\ link.ab = << >>
    /\ link.ba = << >>

\* C26: on either side the header exchange comes after a version exchange
\* that succeeded: a side that is in or past the header exchange, or has
\* written anything after its first object, has read an acceptable remote
\* version and has written its own version first; a side whose version
\* exchange failed has written its version or the rejection at most and
\* has left the handshake.
C26_HeadersAfterVersions ==
    link.a # "none" =>
        /\ (link.a \in {"response", "header", "done"} \/ Len(link.wroteA) > 1)
              => /\ link.remoteVersionA \in {"1.5.0", "1.3.1"}
                 /\ link.wroteA[1] = link.versionA
        /\ (link.b \in {"header", "response", "done"} \/ Len(link.wroteB) > 1)
              => /\ link.remoteVersionB \in {"1.5.0", "1.3.1"}
                 /\ link.remoteVersionB = link.versionA
                 /\ link.wroteB[1] = link.versionB
        /\ (link.a = "failed" /\ link.remoteVersionA = "")
              => link.wroteA = <<link.versionA>>
        /\ (link.b = "failed" /\ link.remoteVersionB = "")
              => link.wroteB \in {<< >>, <<"reject">>}
        /\ link.remoteVersionA = "" => link.a \in {"write", "version", "failed"}
        /\ link.remoteVersionB = "" => link.b \in {"version", "failed"}

\* C26 witness: the version exchange failed at A, which found the version
\* of B insufficient, and at B, which then read no header: each has written
\* its version only.
C26_Witness ==
    /\ link.a = "failed"
    /\ link.b = "failed"
    /\ link.versionB = "1.3.0"
    /\ link.remoteVersionA = ""
    /\ link.wroteA = <<link.versionA>>
    /\ link.wroteB = <<"1.3.0">>
    /\ link.errB = <<"failed to read remote header">>

\* What C27 expects exchangeRemoteHeader to answer to header theirs when
\* its own header is ours: "accept", or the first of the three reasons
\* that applies.
C27_Expected(ours, theirs) ==
    IF theirs.GenesisID # ours.GenesisID THEN "genesis"
    ELSE IF theirs.UniqueID = ours.UniqueID THEN "self"
    ELSE IF Host(theirs.NetAddress) = ""
            \/ Port(theirs.NetAddress) \notin ValidPorts THEN "address"
    ELSE "accept"

\* C27: exchangeRemoteHeader answers the header it read with "accept", and
\* returns no error, exactly when the genesis IDs are equal, the unique IDs
\* differ and the remote NetAddress is valid; otherwise it answers with the
\* text of the error, which is not "accept", and returns an error that
\* names a genesis mismatch before a connection to itself and a connection
\* to itself before an invalid address.  It writes one object.
C27_AcceptExactlyWhenAcceptable ==
    [][/\ (link.b = "header" /\ link'.b # "header" /\ Len(link.ab) > 0)
          => LET e == C27_Expected(link.headerB, Head(link.ab))
                 answer == link'.wroteB[Len(link.wroteB) + 1]
             IN  /\ (e = "accept") <=> (answer = "accept")
                 /\ (e = "accept") <=> (link'.errB = nil)
                 /\ (e = "accept") <=> (link'.b = "response")
                 /\ (e # "accept") <=> (link'.b = "failed")
                 /\ e # "accept" => Len(link'.wroteB) = Len(link.wroteB) + 1
                 /\ e = "genesis" =>
                        /\ answer = "peer has different genesis ID"
                        /\ link'.errB = <<"peer's header was not acceptable: ",
                                          "peer has different genesis ID">>
                 /\ e = "self" =>
                        /\ answer = Error(errOurAddress)
                        /\ link'.errB = <<"peer's header was not acceptable: ",
                                          Error(errOurAddress)>>
                 /\ e = "address" =>
                        /\ answer = "invalid remote address"
                        /\ link'.errB = <<"peer's header was not acceptable: ",
                                          "invalid remote address">>
       /\ (link.a = "header" /\ link'.a # "header" /\ Len(link.ba) > 0)
          => LET e == C27_Expected(link.headerA, Head(link.ba))
                 answer == link'.wroteA[Len(link.wroteA) + 1]
             IN  /\ Len(link'.wroteA) = Len(link.wroteA) + 1
                 /\ (e = "accept") <=> (answer = "accept")
                 /\ (e = "accept") <=> (link'.errA = nil)
                 /\ (e = "accept") <=> (link'.a = "done")
                 /\ (e # "accept") <=> (link'.a = "failed")
                 /\ e = "address" =>
                        /\ answer = "invalid remote address"
                        /\ link'.errA = <<"peer's header was not acceptable: ",
                                          "invalid remote address">>]_vars

\* C27 witness: B has refused a header that is on another chain, carries
\* B's own unique ID and advertises an invalid address, and has reported
\* the genesis mismatch.
C27_Witness ==
    /\ link.b = "failed"
    /\ link.headerA.GenesisID # link.headerB.GenesisID
    /\ link.headerA.UniqueID = link.headerB.UniqueID
    /\ Port(link.headerA.NetAddress) \notin ValidPorts
    /\ Len(link.wroteB) = 2
    /\ link.wroteB[2] = "peer has different genesis ID"
    /\ link.errB = <<"peer's header was not acceptable: ",
                     "peer has different genesis ID">>

\* C28: a task that is about to read the peer table, the node table, the
\* blocklist or myAddr holds the shared or the exclusive half of g.mu, and
\* one that is about to write one of them holds the exclusive half.
C28_AccessUnderLock ==
    \A t \in Tasks :
        mu.prog[t] # "none" =>
            /\ Instruction(t).do = "read"
                  => (HoldsShared(t) \/ HoldsExclusive(t))
            /\ Instruction(t).do = "write" => HoldsExclusive(t)

\* C29: when the table holds fullyConnectedThreshold peers, all of them
\* inbound and not local, and an inbound peer from the host of one of them
\* is admitted, the table holds as many entries after acceptPeer as before,
\* whatever the port of the new peer's address.
C29_CountUnchangedOnSameHostAdmit ==
    [][\A t \in Tasks :
        (/\ AdmitStep(t)
         /\ Cardinality(DOMAIN peers) = fullyConnectedThreshold
         /\ KickCandidates(peers) = DOMAIN peers
         /\ \E a \in DOMAIN peers : Host(a) = Host(arg[t]))
        => Cardinality(DOMAIN peers') = Cardinality(DOMAIN peers)]_vars


C31_DeadlineDuringHandshake ==
    /\ link.a \in {"write", "version", "response", "header"}
        => link.deadlineA = "set"
    /\ link.b \in {"version", "header", "response"}
        => link.deadlineB = "set"
    /\ link.deadlineA = "none" => link.a = "done"
    /\ link.deadlineB = "none" => link.b = "done"
    /\ link.a = "failed" => link.connA = "closed" /\ link.deadlineA = "set"
    /\ link.b = "failed" => link.connB = "closed" /\ link.deadlineB = "set"

\* Both ends have completed the handshake and removed the deadline.
C31_Witness ==
    /\ link.a = "done"
    /\ link.b = "done"
    /\ link.deadlineA = "none"
    /\ link.deadlineB = "none"

\* C32: every successful Connect(addr) spawns one task for each registered
\* init RPC, and each task either calls its RPC once against addr or ends
\* at threads.Add(): so each init RPC is called at most once per successful
\* Connect; a task calls its RPC only while threads.Add() succeeds; tasks
\* are spawned only in the last step of a Connect that returns nil, for the
\* address of that Connect, whose peer is then an outbound peer of the
\* table; a Connect that returns an error and the steps of an inbound
\* connection spawn and call nothing.
C32_InitRPCsOncePerConnect ==
    /\ [](\A k \in InitRPCKeys :
            rpc.spawned[k] + rpc.called[k] + rpc.refused[k]
                = rpc.connects[k[1]])
    /\ [][\A k \in InitRPCKeys :
            rpc'.called[k] # rpc.called[k]
                => /\ threads = "running"
                   /\ rpc.spawned[k] > 0
                   /\ rpc'.called[k] = rpc.called[k] + 1
                   /\ rpc'.spawned[k] = rpc.spawned[k] - 1]_vars
    /\ [][\A a \in NetAddresses :
            rpc'.connects[a] # rpc.connects[a]
                => /\ rpc'.connects[a] = rpc.connects[a] + 1
                   /\ \E t \in Tasks :
                        /\ StepFrom(t, "add")
                        /\ op[t] = "Connect"
                        /\ arg[t] = a
                        /\ pc'[t] = "idle"
                        /\ ret'[t] = nil
                   /\ a \in DOMAIN peers'
                   /\ ~peers'[a].Inbound]_vars
    /\ [][\A t \in Tasks :
            /\ (op'[t] = "Connect" /\ pc'[t] = "idle" /\ ret'[t] # nil
                    /\ (CallStep(t, "Connect") \/ StepIn(t, "Connect")))
                => rpc' = rpc
            /\ (op'[t] = "Accept"
                    /\ (CallStep(t, "Accept") \/ StepIn(t, "Accept")))
                => rpc' = rpc
            /\ (StepFrom(t, "add") /\ op[t] = "Connect")
                => rpc'.connects[arg[t]] = rpc.connects[arg[t]] + 1]_vars

\* After a Connect that succeeded one init RPC has been called against its
\* address and the task of the other has ended at threads.Add().
C32_Witness ==
    \E a \in NetAddresses :
        /\ rpc.connects[a] = 1
        /\ rpc.called[<<a, "rpc1">>] = 1
        /\ rpc.refused[<<a, "rpc2">>] = 1

\* C33: in every state the peers of the table that are inbound and not
\* local number at most fullyConnectedThreshold, which is at least 1,
\* whatever the order of the inserts of Connect, the inbound admissions and
\* the calls of Disconnect.
C33_InboundWithinThreshold ==
    /\ fullyConnectedThreshold >= 1
    /\ Cardinality({a \in DOMAIN peers :
                        peers[a].Inbound /\ ~peers[a].Local})
            <= fullyConnectedThreshold

\* A Connect has just inserted its peer into a table from which acceptPeer
\* kicked a peer: the table holds more than fullyConnectedThreshold peers
\* and exactly fullyConnectedThreshold inbound peers that are not local.
C33_Witness ==
    /\ log.called
    /\ log.kick # {}
    /\ \E t \in Tasks : op[t] = "Connect" /\ pc[t] = "idle" /\ ret[t] = nil
    /\ Cardinality(DOMAIN peers) > fullyConnectedThreshold
    /\ Cardinality({a \in DOMAIN peers :
                        peers[a].Inbound /\ ~peers[a].Local})
            = fullyConnectedThreshold

\* C34: in every state no peer of the peer table has its host in the
\* blocklist.
C34_NoBlocklistedPeer ==
    \A a \in DOMAIN peers : Host(a) \notin blocklist

\* C35: a step of acceptPeer, with or without a kick, leaves the node table
\* and the blocklist as they are; a node leaves the node table only in the
\* deletes of Disconnect (called directly or by DisconnectManual), and it is
\* the node of the address disconnected; the blocklist changes only in the
\* first step of ConnectManual and in the last step of DisconnectManual.
C35_AcceptPeerFrame ==
    /\ [][\A t \in Tasks :
            AdmitStep(t) => nodes' = nodes /\ blocklist' = blocklist]_vars
    /\ [][\A a \in DOMAIN nodes \ DOMAIN nodes' :
            \E t \in Tasks :
                /\ StepFrom(t, "delete")
                /\ op[t] \in {"Disconnect", "DisconnectManual"}
                /\ arg[t] = a]_vars
    /\ [][blocklist' # blocklist
            => \E t \in Tasks :
                \/ CallStep(t, "ConnectManual")
                \/ StepFrom(t, "dm_block") /\ op[t] = "DisconnectManual"]_vars

\* acceptPeer has just kicked a peer while the node table and the blocklist
\* were not empty, and they are as they were.
C35_Witness ==
    /\ log.called
    /\ log.kick # {}
    /\ \E t \in Tasks : pc[t] = "acc_ping"
    /\ log.kick \cap DOMAIN peers = {}
    /\ log.kick \cap DOMAIN nodes # {}
    /\ blocklist # {}

\* The threads that hold sector i, and those in managedLockSector(i) that
\* wait for it.
SectorHolders(i) ==
    {t \in SectorThreads : cm.pc[t] = "holding" /\ cm.id[t] = i}

SectorWaiters(i) ==
    {t \in SectorThreads : cm.pc[t] = "wait" /\ cm.id[t] = i}

\* C36: at most one thread is between its return from managedLockSector(id)
\* and its managedUnlockSector(id); a thread in managedLockSector(id) is
\* kept waiting only while a thread holds the same id; lockedSectors has an
\* entry for id exactly while a thread holds id or waits for it, and its
\* waiting field counts these threads.
C36_SectorLock ==
    \A i \in SectorIDs :
        /\ Cardinality(SectorHolders(i)) <= 1
        /\ \A t \in SectorWaiters(i) :
            /\ cm.sl[t] = cm.lockedSectors[i]
            /\ cm.locks[cm.sl[t]].holder # "none" => SectorHolders(i) # {}
        /\ cm.lockedSectors[i] # 0
            <=> SectorHolders(i) \cup SectorWaiters(i) # {}
        /\ cm.lockedSectors[i] # 0
            => cm.locks[cm.lockedSectors[i]].waiting
                = Cardinality(SectorHolders(i) \cup SectorWaiters(i))

\* One thread holds s1 while another waits for it and a third holds s2.
C36_Witness ==
    /\ Cardinality(SectorHolders("s1")) = 1
    /\ Cardinality(SectorWaiters("s1")) = 1
    /\ Cardinality(SectorHolders("s2")) = 1

\* The objects in entryList.
Listed == {cache.entryList[i] : i \in DOMAIN cache.entryList}

\* C37: the cache holds at most maxEntries entries; entryMap and entryList
\* hold the same entries, each key once, every entry under its own key; a
\* Set of a key that is cached changes the revision of its entry and
\* nothing else; the entry of every cached key has the revision of the last
\* Set of the key, and that is what Get returns.
C37_CacheConsistent ==
    /\ [](/\ Len(cache.entryList) <= cache.maxEntries
          /\ Cardinality(Listed) = Len(cache.entryList)
          /\ Listed = {cache.entryMap[k] : k \in DOMAIN cache.entryMap}
          /\ \A k \in DOMAIN cache.entryMap :
                /\ cache.entries[cache.entryMap[k]].key = k
                /\ cache.entries[cache.entryMap[k]].revision = cache.last[k])
    /\ [][(cache'.call.op = "Set" /\ cache'.call.key \in DOMAIN cache.entryMap)
            => /\ cache'.entryMap = cache.entryMap
               /\ cache'.entryList = cache.entryList
               /\ cache'.entries =
                    [cache.entries EXCEPT
                        ![cache.entryMap[cache'.call.key]].revision =
                            cache'.call.revision]]_vars
    /\ []((cache.call.op = "Get" /\ cache.call.key \in DOMAIN cache.entryMap)
            => /\ cache.call.ok
               /\ cache.call.revision = cache.last[cache.call.key])
    /\ []((cache.call.op = "Get" /\ cache.call.key \notin DOMAIN cache.entryMap)
            => ~cache.call.ok)

\* A full cache of two entries, one of them set twice, from which a third
\* key was evicted, has answered a Get with the second revision.
C37_Witness ==
    /\ cache.maxEntries = 2
    /\ Len(cache.entryList) = 2
    /\ cache.last["k3"] # 0
    /\ "k3" \notin DOMAIN cache.entryMap
    /\ cache.call.op = "Get"
    /\ cache.call.key = "k1"
    /\ cache.call.ok
    /\ cache.call.revision = 2
    /\ cache.last["k1"] = 2

\* A step of Update for a key that is in the registry.
UpdateOfExisting ==
    /\ reg'.call.op = "Update"
    /\ reg'.call.key \in DOMAIN reg.entries

PruneStep == reg'.call.op = "Prune" /\ reg'.call.failed = {}

\* C39: Prune(expiry) removes exactly the entries whose expiry height is
\* smaller than expiry and frees their slots; the entries whose expiry
\* height is expiry or more stay as they are.
C39_PruneRemovesSmaller ==
    [][PruneStep =>
        LET gone == {k \in DOMAIN reg.entries :
                        reg.entries[k].expiry < reg'.call.expiry}
        IN  /\ DOMAIN reg'.entries = DOMAIN reg.entries \ gone
            /\ \A k \in DOMAIN reg'.entries : reg'.entries[k] = reg.entries[k]
            /\ reg'.staticUsage =
                reg.staticUsage \ {reg.entries[k].staticIndex : k \in gone}]_vars

\* ------------------------------------------------ renter: UploadLinkfile
\* Sizes are scaled: a sector holds SectorSize units, the file starts at
\* FileStartOffset and the encoded metadata may take
\* LinkfileMetadataMaxSize units.
SectorSize == 3

FileStartOffset == 1

LinkfileMetadataMaxSize == 1

\* The inputs of a call: the size of the encoded metadata, the length of the
\* data behind the reader, and whether the name joins to a valid path.
MetadataSizes == 1..2

ReaderLengths == 0..(SectorSize + 1)

\* The clock counts seconds since start was taken; past MaxElapsed the
\* exact value is no longer followed.
Second == 1

Minute == 60 * Second

MaxElapsed == 5 * Minute + 2 * Second

\* The redundancy of the uploaded file, in whole pieces of the 1-of-N code.
MaxRedundancy == 2

\* io.ReadFull fills the buffer of one sector with what the reader holds.
ReadFull(len) == IF len < SectorSize THEN len ELSE SectorSize

\* The link made from the link data; the Merkle root is the one of the
\* uploaded sector and is not followed.
LinkString(size) ==
    [Version |-> 1, Filesize |-> size, DataPieces |-> 1, ParityPieces |-> 1]

NoLinkString == [Version |-> 0]

\* UploadLinkfile has returned the link and the error.
UploadReturned(u, sialink, err) ==
    [u EXCEPT !.pc = "done", !.sialink = sialink, !.err = err]

\* The condition of the polling loop.
UploadMustWait(u) == u.elapsed > 5 * Minute /\ u.redundancy < 1

notUpload ==
    <<peers, nodes, blocklist, myAddr, sess, log, pc, op, arg, p, conn,
      saveErr, ret, phase, threads, blocked, link, mu, lis, rpc, cm, cache,
      reg>>

\* The checks before the upload: the size of the metadata, the size of the
\* file, and the path of the link file.
UploadLinkfile(mlfm, len, nameOk) ==
    /\ up.on /\ up.pc = "idle"
    /\ LET size == ReadFull(len)
           maxSize == SectorSize - FileStartOffset
       IN  up' =
            IF mlfm > LinkfileMetadataMaxSize
            THEN UploadReturned(up, NoLinkString,
                    <<"encoded metadata size exceeds the maximum">>)
            ELSE IF size > maxSize
            THEN UploadReturned(up, NoLinkString,
                    <<"maximum size for a linkfile at the current siad version">>)
            ELSE IF size = 0
            THEN UploadReturned(up, NoLinkString,
                    <<"refusing to upload an empty file">>)
            ELSE IF ~nameOk
            THEN UploadReturned(up, NoLinkString,
                    <<"unable to create a linkfile with the given name">>)
            ELSE [up EXCEPT !.pc = "upload", !.size = size]
    /\ UNCHANGED notUpload

\* managedUploadStreamFromReader fails, or returns the node of the file,
\* whose pieces are then uploaded in the background.
UploadStream(ok) ==
    /\ up.on /\ up.pc = "upload"
    /\ up' = IF ok
                THEN [up EXCEPT !.pc = "start"]
                ELSE UploadReturned(up, NoLinkString,
                        <<"failed to upload the file">>)
    /\ UNCHANGED notUpload

\* start := time.Now()
UploadStartClock ==
    /\ up.on /\ up.pc = "start"
    /\ up' = [up EXCEPT !.pc = "test", !.elapsed = 0]
    /\ UNCHANGED notUpload

\* The test of the polling loop.
UploadTest ==
    /\ up.on /\ up.pc = "test"
    /\ up' = [up EXCEPT !.pc = IF UploadMustWait(up) THEN "sleep" ELSE "link"]
    /\ UNCHANGED notUpload

\* time.Sleep(time.Second) in the body of the loop; waited records that the
\* call has slept.
UploadSleep ==
    /\ up.on /\ up.pc = "sleep"
    /\ \E e \in (up.elapsed + Second)..(MaxElapsed + Second) :
        up' = [up EXCEPT !.pc = "test", !.waited = TRUE,
                         !.elapsed = IF e > MaxElapsed THEN MaxElapsed ELSE e]
    /\ UNCHANGED notUpload

\* The link data is made and the link returned.
UploadLink ==
    /\ up.on /\ up.pc = "link"
    /\ up' = UploadReturned(up, LinkString(up.size), <<>>)
    /\ UNCHANGED notUpload

\* A second passes between two steps of the call.
UploadTick ==
    /\ up.on /\ up.pc \in {"test", "sleep", "link"}
    /\ up.elapsed < MaxElapsed
    /\ up' = [up EXCEPT !.elapsed = @ + Second]
    /\ UNCHANGED notUpload

\* A piece of the file reaches a host.
UploadProgress ==
    /\ up.on /\ up.pc \in {"start", "test", "sleep", "link"}
    /\ up.redundancy < MaxRedundancy
    /\ up' = [up EXCEPT !.redundancy = @ + 1]
    /\ UNCHANGED notUpload

InitUpload ==
    /\ peers = EmptyMap
    /\ nodes = EmptyMap
    /\ blocklist = {}
    /\ myAddr = JoinHostPort("127.0.0.1", 1)
    /\ sess = EmptyMap
    /\ log = NoLog
    /\ pc = [t \in Tasks |-> "idle"]
    /\ op = [t \in Tasks |-> "none"]
    /\ arg = [t \in Tasks |-> myAddr]
    /\ p = [t \in Tasks |-> 0]
    /\ conn = [t \in Tasks |-> "none"]
    /\ saveErr = [t \in Tasks |-> nil]
    /\ ret = [t \in Tasks |-> nil]
    /\ phase = [t \in Tasks |-> "none"]
    /\ threads = "running"
    /\ blocked = {}
    /\ link = NoLink
    /\ mu = MuFree
    /\ lis = NoListener
    /\ rpc = NoRPC
    /\ cm = NoSectors
    /\ cache = NoCache
    /\ reg = NoRegistry
    /\ up = [on |-> TRUE, pc |-> "idle", size |-> 0, elapsed |-> 0,
             waited |-> FALSE, redundancy |-> 0, sialink |-> NoLinkString,
             err |-> <<>>]

NextUpload ==
    \/ \E mlfm \in MetadataSizes, len \in ReaderLengths, nameOk \in BOOLEAN :
        UploadLinkfile(mlfm, len, nameOk)
    \/ \E ok \in BOOLEAN : UploadStream(ok)
    \/ UploadStartClock
    \/ UploadTest
    \/ UploadSleep
    \/ UploadLink
    \/ UploadTick
    \/ UploadProgress

SpecUpload == InitUpload /\ [][NextUpload]_vars

\* C40: UploadLinkfile returns the link only when the redundancy of the
\* uploaded file has reached 1 or five minutes have passed since the upload.
C40_BlocksUntilAvailable ==
    [][up.pc = "link" /\ up'.pc = "done"
        => up.redundancy >= 1 \/ up.elapsed >= 5 * Minute]_vars

====
